---- MODULE Spec2Model ----
(***************************************************************************)
(* Model of mcp-bench: the telemetry scanner (parse_results.py), the local *)
(* scorers (judge.py) and the ledger merge (merge_results.py).             *)
(*                                                                         *)
(* Text is modelled as a sequence of one-character strings, so that        *)
(* slicing, substring search, strip(), upper() and re.findall are computed *)
(* on characters the way Python computes them.                             *)
(***************************************************************************)
EXTENDS Integers, Sequences, FiniteSets, TLC

VARIABLES
    server_log,     \* parse_tool_calls: the telemetry of one query
    lineno,         \* parse_tool_calls: index of the next line of the for loop
    current_tool,   \* parse_tool_calls: pending tool name, or None
    current_args,   \* parse_tool_calls: pending arguments, or None
    calls,          \* parse_tool_calls: the calls emitted so far
    pc,             \* where the modelled program stands
    dataset,        \* parse_json_file: data["dataset"], the expected dataset
    routed_column,  \* judge main: the CSV it reads has a dataset_routed_to column
    row,            \* parse_json_file: the row built; judge main: the row read
    score_routing,  \* judge main: score_routing
    score_ordering, \* judge main: score_ordering
    benchmark_csv,  \* merge_into_benchmark: the rows of the ledger file
    old_benchmark,  \* the rows of the ledger file before the merge
    merge_args,     \* merge_into_benchmark: new_rows, platform and mode
    updated_count,  \* merge_into_benchmark: updated_count
    judge_csv,      \* merge_into_judge: the file at judge_csv
    old_judge_csv,  \* the file at judge_csv before merge_into_judge
    rejudge,        \* merge_results main: args.rejudge
    update_args,    \* update_benchmark_csv: mode, dataset, query_no, new_row, updated
    judge_args,     \* judge main: the input file, the credential, args.start
    results_csv,    \* judge main: the file at out_path
    old_results,    \* the file at out_path when the run began
    results,        \* judge main: results
    row_num,        \* judge main: row_num of the row the loop is at
    exit_status,    \* the exit status of the process, -1 while it runs
    judge_scores,   \* rerun_failed main: judge_scores
    cli,            \* the files the command line of parse_results or merge_results names
    queries,        \* testers, run_queries: what happens to each query of the csv
    start_from,     \* testers, run_queries: start_from
    qno,            \* testers, run_queries: the position of the loop
    results_path,   \* testers, run_queries: the JSON file of the run
    merger          \* merge_into_judge run beside a judge run: existing_rows, updated_queries

vars == <<server_log, lineno, current_tool, current_args, calls, pc,
          dataset, routed_column, row, score_routing, score_ordering,
          benchmark_csv, old_benchmark, merge_args, updated_count,
          judge_csv, old_judge_csv, rejudge, update_args,
          judge_args, results_csv, old_results, results, row_num, exit_status,
          judge_scores, cli, queries, start_from, qno, results_path, merger>>

\* the transcript collectors, but for results
testerVars == <<queries, start_from, qno, results_path>>

\* the ledger side
ledgerVars == <<benchmark_csv, old_benchmark, merge_args, updated_count,
                judge_csv, old_judge_csv, rejudge, update_args>>

\* the judge ledger that merge_results.py and rerun_failed.py update
judgeLedgerVars == <<judge_csv, old_judge_csv, rejudge, update_args>>

\* update_benchmark_csv has not been called
NoUpdate == [mode |-> "", dataset |-> "", query_no |-> 0, new_row |-> "", updated |-> FALSE]

\* the judge run
judgeVars == <<judge_args, results_csv, old_results, results, row_num, exit_status,
               judge_scores, cli>>

\* a path at which no file exists, and a file holding rows under its header
NoFile == [exists |-> FALSE, rows |-> <<>>]

\* no merge_into_judge runs beside the judge run
NoMerger == [pc |-> "none", existing_rows |-> <<>>, updated_queries |-> {}]
File(rows) == [exists |-> TRUE, rows |-> rows]

\* no JSON file is named and the benchmark csv is there
NoCli == [benchmark_exists |-> TRUE, json_files |-> <<>>]

\* one JSON file the command line names or the glob finds: whether it can be
\* opened and how many results it holds
MaxJsonFiles == 2
JsonFile(exists, n) == [exists |-> exists, queries |-> n]
JsonFiles == {JsonFile(FALSE, 0), JsonFile(TRUE, 0), JsonFile(TRUE, 1)}
JsonFileInputs == UNION {[1..n -> JsonFiles] : n \in 0..MaxJsonFiles}

\* parse_json_file, line 147: open raises on a file that is not there
AllFilesOpen(json_files) == \A i \in 1..Len(json_files) : json_files[i].exists

\* len(all_rows) of lines 250-254 and of merge_results.py lines 127-132
RECURSIVE CountRows(_)
CountRows(json_files) ==
    IF json_files = <<>> THEN 0
    ELSE json_files[1].queries + CountRows(Tail(json_files))

\* judge_single_query has returned nothing: not called, or {} (line 166)
NoScores == [returned |-> FALSE]

\* the judge run has not been asked for
NoJudgeArgs == [csv_exists |-> FALSE, api_key |-> FALSE, start |-> 1, rows |-> <<>>]

\* what parse_tool_calls does not touch
rowVars == <<dataset, routed_column, row, score_routing, score_ordering>>
\* what the row building and scoring do not touch
scanVars == <<server_log, lineno, current_tool, current_args>>

-----------------------------------------------------------------------------
(* Text helpers                                                            *)

Min(a, b) == IF a <= b THEN a ELSE b

\* s[:n]
Slice(s, n) == SubSeq(s, 1, Min(n, Len(s)))

\* sub in s
Contains(s, sub) ==
    \E i \in 0..(Len(s) - Len(sub)) : SubSeq(s, i + 1, i + Len(sub)) = sub

\* n filler characters
Fill(n) == [i \in 1..n |-> "x"]

\* Python's None where a text is expected, and a key that a dict lacks.
NoneText == <<"<None>">>
Missing == <<"<missing>">>

-----------------------------------------------------------------------------
(* Python values held by current_args / call["args"]                       *)

NoFilters == [type |-> "missing", dataset |-> Missing]
FiltersDict(ds) == [type |-> "dict", dataset |-> ds]
FiltersStr == [type |-> "str", dataset |-> Missing]

\* a dict literal with the keys the code reads
ArgsDict(ds, ind, fl) ==
    [type |-> "dict", text |-> <<>>, dataset |-> ds, indicator_code |-> ind,
     filters |-> fl]
\* the raw text kept when eval fails
ArgsStr(t) ==
    [type |-> "str", text |-> t, dataset |-> Missing, indicator_code |-> Missing,
     filters |-> NoFilters]
ArgsNone ==
    [type |-> "None", text |-> <<>>, dataset |-> Missing,
     indicator_code |-> Missing, filters |-> NoFilters]
EmptyDict == ArgsDict(Missing, Missing, NoFilters)

\* bool(value)
Truthy(v) ==
    CASE v.type = "None" -> FALSE
      [] v.type = "str" -> v.text # <<>>
      [] v.type = "dict" -> v # EmptyDict
      [] OTHER -> TRUE

\* repr() of a str / of the dict literals above, as the telemetry prints them
Quoted(t) == <<"'">> \o t \o <<"'">>
ReprItem(key, t) == Quoted(key) \o <<":", " ">> \o Quoted(t)
ReprFilters(fl) ==
    IF fl.type = "str" THEN Quoted(<<"a", "l", "l">>)
    ELSE <<"{">> \o (IF fl.dataset = Missing THEN <<>>
                     ELSE ReprItem(<<"d","a","t","a","s","e","t">>, fl.dataset))
         \o <<"}">>
RECURSIVE JoinWith(_, _)
JoinWith(parts, sep) ==
    IF parts = <<>> THEN <<>>
    ELSE IF Len(parts) = 1 THEN parts[1]
    ELSE parts[1] \o sep \o JoinWith(Tail(parts), sep)
Repr(v) ==
    LET items ==
          (IF v.dataset = Missing THEN <<>>
           ELSE <<ReprItem(<<"d","a","t","a","s","e","t">>, v.dataset)>>)
          \o (IF v.indicator_code = Missing THEN <<>>
              ELSE <<ReprItem(<<"i","n","d","i","c","a","t","o","r","_","c","o","d","e">>,
                              v.indicator_code)>>)
          \o (IF v.filters.type = "missing" THEN <<>>
              ELSE <<Quoted(<<"f","i","l","t","e","r","s">>) \o <<":", " ">>
                     \o ReprFilters(v.filters)>>)
    IN  IF v.type = "None" THEN <<"N","o","n","e">>
        ELSE <<"{">> \o JoinWith(items, <<",", " ">>) \o <<"}">>

-----------------------------------------------------------------------------
(* Literal texts of the source                                             *)

KNOW_TOOL == <<"1","_","k","n","o","w","_","a","b","o","u","t","_","m","o","s","p","i","_","a","p","i">>
INDICATORS_TOOL == <<"2","_","g","e","t","_","i","n","d","i","c","a","t","o","r","s">>
METADATA_TOOL == <<"3","_","g","e","t","_","m","e","t","a","d","a","t","a">>
DATA_TOOL == <<"4","_","g","e","t","_","d","a","t","a">>

ErrorMarker == <<"\"","e","r","r","o","r","\"">>
TimedOutMarker == <<"t","i","m","e","d"," ","o","u","t">>
DataMarker == <<"\"","d","a","t","a","\"">>

\* output_raw[:300]
PrefixLen == 300

-----------------------------------------------------------------------------
(* Inputs: texts that occur in the modelled logs                           *)

SEARCH_TOOL == <<"2","_","s","e","a","r","c","h">>
PING_TOOL == <<"5","_","p","i","n","g">>
PLFS == <<"P","L","F","S">>
CPI == <<"C","P","I">>
DS_3X == <<"3","_","X">>
RawDatasetText == <<"d","a","t","a","s","e","t","=","P","L","F","S">>
RawOtherText == <<"<","o","b","j",">">>
NoiseText == <<"I","N","F","O">>
OutDataText == <<"{">> \o DataMarker \o <<":"," ","[","1","]","}">>
OutErrorText == <<"{">> \o ErrorMarker \o <<":"," ","\"","b","a","d","\"","}">>
OutTimeoutText == <<"{">> \o ErrorMarker \o <<":"," ","\"">> \o TimedOutMarker \o <<"\"","}">>

\* The literals an Args line can hold and eval() can evaluate.
ArgLiterals ==
    {ArgsNone, EmptyDict}
    \cup {ArgsDict(ds, Missing, NoFilters) : ds \in {PLFS, CPI, DS_3X}}
    \cup {ArgsDict(PLFS, <<"5">>, NoFilters)}
    \cup {ArgsDict(ds, Missing, FiltersDict(CPI)) : ds \in {Missing, PLFS}}
    \cup {ArgsDict(Missing, Missing, FiltersStr)}

-----------------------------------------------------------------------------
(* Log lines, after line.strip().  marker is the text the line starts with *)
(* ("Tool" for "[TELEMETRY] Tool: ", ...), text what follows it, size the  *)
(* digits of an Output line.  A marker followed by nothing does not match  *)
(* its pattern, because the patterns end in (.+).                          *)

Line(marker, text, size) == [marker |-> marker, text |-> text, size |-> size]

\* re.match(r"\[TELEMETRY\] Tool: (.+)", line) and its three siblings
MatchesTool(line) == line.marker = "Tool" /\ line.text # <<>>
MatchesArgs(line) == line.marker = "Args" /\ line.text # <<>>
MatchesExecuted(line) == line.marker = "Executed" /\ line.text # <<>>
MatchesOutput(line) == line.marker = "Output" /\ line.text # <<>>

\* eval(m.group(1)) with the except branch: the literal's value, else the raw text
EvalArgs(text) ==
    IF \E v \in ArgLiterals : Repr(v) = text
    THEN CHOOSE v \in ArgLiterals : Repr(v) = text
    ELSE ArgsStr(text)

\* Mutant of HasData: the whole output is searched, not its first 300 characters.
HasData_WholeOutput(output_raw) ==
    /\ Contains(output_raw, DataMarker)
    /\ ~Contains(output_raw, ErrorMarker)

\* Mutant of HasData: an "error" marker in the prefix does not unset the flag.
HasData_IgnoresError(output_raw) ==
    Contains(Slice(output_raw, PrefixLen), DataMarker)

\* lines 62-64
IsError(output_raw) ==
    /\ Contains(Slice(output_raw, PrefixLen), ErrorMarker)
    /\ Contains(Slice(output_raw, PrefixLen), TimedOutMarker)
HasData(output_raw) ==
    /\ Contains(Slice(output_raw, PrefixLen), DataMarker)
    /\ ~Contains(Slice(output_raw, PrefixLen), ErrorMarker)

\* lines 66-73
MakeCall(tool, args, size, output_raw) ==
    [tool |-> tool,
     args |-> IF Truthy(args) THEN args ELSE EmptyDict,
     output_size |-> size,
     output |-> output_raw,
     has_data |-> HasData(output_raw),
     is_error |-> IsError(output_raw)]

\* no row built yet
NoRow == [dataset |-> Missing, dataset_routed_to |-> Missing, correct_routing |-> "",
          tool_trace |-> Missing, metadata_output |-> Missing, all_tool_calls |-> <<>>]

\* the str | None parameter
LogText(lines) == [missing |-> FALSE, lines |-> lines]
LogMissing == [missing |-> TRUE, lines |-> <<>>]
LogTruthy(log) == ~log.missing /\ log.lines # <<>>

-----------------------------------------------------------------------------
(* parse_tool_calls, one action per branch of the loop body                *)

CurLine == server_log.lines[lineno]
Scanning == pc = "scan" /\ lineno <= Len(server_log.lines)

\* line 24: if not server_log: return []
EarlyReturn ==
    /\ pc = "call"
    /\ ~LogTruthy(server_log)
    /\ pc' = "done"
    /\ UNCHANGED <<server_log, lineno, current_tool, current_args, calls>>
    /\ UNCHANGED <<rowVars, ledgerVars, judgeVars>>
    /\ UNCHANGED <<testerVars, merger>>

\* lines 27-31
EnterLoop ==
    /\ pc = "call"
    /\ LogTruthy(server_log)
    /\ pc' = "scan"
    /\ lineno' = 1
    /\ current_tool' = NoneText
    /\ current_args' = ArgsNone
    /\ calls' = <<>>
    /\ UNCHANGED server_log
    /\ UNCHANGED <<rowVars, ledgerVars, judgeVars>>
    /\ UNCHANGED <<testerVars, merger>>

\* Mutant of ToolLine: the pending arguments are kept when a tool is named.
ToolLine_KeepsArgs ==
    /\ pc = "scan" /\ lineno <= Len(server_log.lines)
    /\ MatchesTool(server_log.lines[lineno])
    /\ current_tool' = server_log.lines[lineno].text
    /\ lineno' = lineno + 1
    /\ UNCHANGED <<server_log, current_args, calls, pc>>
    /\ UNCHANGED <<rowVars, ledgerVars, judgeVars>>
    /\ UNCHANGED <<testerVars, merger>>

\* lines 35-39
ToolLine ==
    /\ Scanning
    /\ MatchesTool(CurLine)
    /\ current_tool' = CurLine.text
    /\ current_args' = ArgsNone
    /\ lineno' = lineno + 1
    /\ UNCHANGED <<server_log, calls, pc>>
    /\ UNCHANGED <<rowVars, ledgerVars, judgeVars>>
    /\ UNCHANGED <<testerVars, merger>>

\* lines 42-48
ArgsLine ==
    /\ Scanning
    /\ MatchesArgs(CurLine)
    /\ current_args' = EvalArgs(CurLine.text)
    /\ lineno' = lineno + 1
    /\ UNCHANGED <<server_log, current_tool, calls, pc>>
    /\ UNCHANGED <<rowVars, ledgerVars, judgeVars>>
    /\ UNCHANGED <<testerVars, merger>>

\* Mutant of ExecutedLine: "Tool executed" ends the pending call.
ExecutedLine_EndsCall ==
    /\ pc = "scan" /\ lineno <= Len(server_log.lines)
    /\ MatchesExecuted(server_log.lines[lineno])
    /\ current_tool' = NoneText
    /\ current_args' = ArgsNone
    /\ lineno' = lineno + 1
    /\ UNCHANGED <<server_log, calls, pc>>
    /\ UNCHANGED <<rowVars, ledgerVars, judgeVars>>
    /\ UNCHANGED <<testerVars, merger>>

\* lines 51-54, and the fall-through to line 57 when no tool is pending
ExecutedLine ==
    /\ Scanning
    /\ MatchesExecuted(CurLine)
    /\ lineno' = lineno + 1
    /\ UNCHANGED <<server_log, current_tool, current_args, calls, pc>>
    /\ UNCHANGED <<rowVars, ledgerVars, judgeVars>>
    /\ UNCHANGED <<testerVars, merger>>

\* Mutant of OutputLine: the pending tool is not reset after the call is emitted.
OutputLine_NoReset ==
    /\ pc = "scan" /\ lineno <= Len(server_log.lines)
    /\ MatchesOutput(server_log.lines[lineno])
    /\ current_tool # NoneText
    /\ calls' = Append(calls, MakeCall(current_tool, current_args,
                                       server_log.lines[lineno].size,
                                       server_log.lines[lineno].text))
    /\ lineno' = lineno + 1
    /\ UNCHANGED <<server_log, current_tool, current_args, pc>>
    /\ UNCHANGED <<rowVars, ledgerVars, judgeVars>>
    /\ UNCHANGED <<testerVars, merger>>

\* lines 57-76
OutputLine ==
    /\ Scanning
    /\ MatchesOutput(CurLine)
    /\ current_tool # NoneText
    /\ calls' = Append(calls, MakeCall(current_tool, current_args,
                                       CurLine.size, CurLine.text))
    /\ current_tool' = NoneText
    /\ current_args' = ArgsNone
    /\ lineno' = lineno + 1
    /\ UNCHANGED <<server_log, pc>>
    /\ UNCHANGED <<rowVars, ledgerVars, judgeVars>>
    /\ UNCHANGED <<testerVars, merger>>

\* line 58 false: an output line while no tool is pending
OrphanOutputLine ==
    /\ Scanning
    /\ MatchesOutput(CurLine)
    /\ current_tool = NoneText
    /\ lineno' = lineno + 1
    /\ UNCHANGED <<server_log, current_tool, current_args, calls, pc>>
    /\ UNCHANGED <<rowVars, ledgerVars, judgeVars>>
    /\ UNCHANGED <<testerVars, merger>>

\* no pattern matches
UnrecognizedLine ==
    /\ Scanning
    /\ ~MatchesTool(CurLine) /\ ~MatchesArgs(CurLine)
    /\ ~MatchesExecuted(CurLine) /\ ~MatchesOutput(CurLine)
    /\ lineno' = lineno + 1
    /\ UNCHANGED <<server_log, current_tool, current_args, calls, pc>>
    /\ UNCHANGED <<rowVars, ledgerVars, judgeVars>>
    /\ UNCHANGED <<testerVars, merger>>

\* line 78
Return ==
    /\ pc = "scan"
    /\ lineno > Len(server_log.lines)
    /\ pc' = "done"
    /\ UNCHANGED <<server_log, lineno, current_tool, current_args, calls>>
    /\ UNCHANGED <<rowVars, ledgerVars, judgeVars>>
    /\ UNCHANGED <<testerVars, merger>>

NextParse ==
    \/ EarlyReturn \/ EnterLoop \/ ToolLine \/ ArgsLine \/ ExecutedLine
    \/ OutputLine \/ OrphanOutputLine \/ UnrecognizedLine \/ Return

-----------------------------------------------------------------------------
(* Logs fed to parse_tool_calls                                            *)

MaxLogLen == 4

BoundedSeq(S, n) == UNION {[1..k -> S] : k \in 0..n}

ScanLines ==
    {Line("Tool", KNOW_TOOL, 0), Line("Tool", DATA_TOOL, 0),
     Line("Args", Repr(ArgsDict(PLFS, Missing, NoFilters)), 0),
     Line("Args", RawDatasetText, 0),
     Line("Executed", DATA_TOOL, 0),
     Line("Output", OutDataText, 13),
     Line("Output", OutTimeoutText, 22),
     Line("Other", NoiseText, 0)}

\* Outputs with each marker absent or at a position around the 300 cut.
MarkerAt(marker, pos, i) == i > pos /\ i <= pos + Len(marker)
ProbeText(e, t, d) ==
    [i \in 1..420 |->
        IF e >= 0 /\ MarkerAt(ErrorMarker, e, i) THEN ErrorMarker[i - e]
        ELSE IF t >= 0 /\ MarkerAt(TimedOutMarker, t, i) THEN TimedOutMarker[i - t]
        ELSE IF d >= 0 /\ MarkerAt(DataMarker, d, i) THEN DataMarker[i - d]
        ELSE "x"]
Apart(p, m, q, n) == p < 0 \/ q < 0 \/ p + Len(m) <= q \/ q + Len(n) <= p
ProbeOutputs ==
    {ProbeText(e, t, d) :
        <<e, t, d>> \in {x \in {-1, 0, 293, 294, 350} \X {-1, 10, 283, 291, 292, 380}
                                \X {-1, 30, 276, 294, 295, 400} :
                            /\ Apart(x[1], ErrorMarker, x[2], TimedOutMarker)
                            /\ Apart(x[1], ErrorMarker, x[3], DataMarker)
                            /\ Apart(x[2], TimedOutMarker, x[3], DataMarker)}}

ShortProbeLog ==
    <<Line("Tool", <<>>, 0), Line("Output", <<>>, 0), Line("Output", OutDataText, 13),
      Line("Tool", DATA_TOOL, 0), Line("Output", OutErrorText, 16)>>

\* a call whose Args line holds the literal None
NoneArgsLog ==
    <<Line("Tool", DATA_TOOL, 0), Line("Args", Repr(ArgsNone), 0),
      Line("Output", OutDataText, 13)>>

InitParse ==
    /\ \/ server_log = LogMissing
       \/ \E k \in 0..MaxLogLen : \E ls \in [1..k -> ScanLines] : server_log = LogText(ls)
       \/ \E o \in ProbeOutputs :
             server_log = LogText(<<Line("Tool", DATA_TOOL, 0), Line("Output", o, Len(o))>>)
       \/ server_log = LogText(ShortProbeLog)
       \/ server_log = LogText(NoneArgsLog)
    /\ lineno = 1
    /\ current_tool = NoneText
    /\ current_args = ArgsNone
    /\ calls = <<>>
    /\ pc = "call"
    /\ dataset = PLFS
    /\ routed_column = TRUE
    /\ row = NoRow
    /\ score_routing = -1
    /\ score_ordering = -1
    /\ benchmark_csv = <<>>
    /\ old_benchmark = <<>>
    /\ merge_args = [new_rows |-> <<>>, platform |-> "", mode |-> ""]
    /\ updated_count = 0
    /\ judge_csv = NoFile
    /\ old_judge_csv = NoFile
    /\ rejudge = FALSE
    /\ update_args = NoUpdate
    /\ judge_args = NoJudgeArgs
    /\ results_csv = NoFile
    /\ old_results = NoFile
    /\ results = <<>>
    /\ row_num = 0
    /\ exit_status = -1
    /\ judge_scores = NoScores
    /\ queries = <<>>
    /\ start_from = 1
    /\ qno = 0
    /\ results_path = NoFile
    /\ merger = NoMerger
    /\ cli = NoCli

SpecParse == InitParse /\ [][NextParse]_vars

-----------------------------------------------------------------------------
(* parse_tool_calls as a function of the log: the same loop, folded over   *)
(* the lines.  st is <<current_tool, current_args, calls>>.                *)

ScanLine(st, line) ==
    IF MatchesTool(line) THEN <<line.text, ArgsNone, st[3]>>
    ELSE IF MatchesArgs(line) THEN <<st[1], EvalArgs(line.text), st[3]>>
    ELSE IF MatchesExecuted(line) /\ st[1] # NoneText THEN st
    ELSE IF MatchesOutput(line) /\ st[1] # NoneText
         THEN <<NoneText, ArgsNone,
                Append(st[3], MakeCall(st[1], st[2], line.size, line.text))>>
    ELSE st

RECURSIVE ScanFrom(_, _)
ScanFrom(st, lines) ==
    IF lines = <<>> THEN st ELSE ScanFrom(ScanLine(st, Head(lines)), Tail(lines))

ParseToolCalls(log) ==
    IF ~LogTruthy(log) THEN <<>>
    ELSE ScanFrom(<<NoneText, ArgsNone, <<>>>>, log.lines)[3]

\* line 108 / judge.py line 204: the outcome the two flags stand for
OutcomeOf(c) ==
    IF c.has_data THEN "HAS_DATA"
    ELSE IF c.is_error THEN "ERROR_OR_TIMEOUT" ELSE "EMPTY_NO_DATA"

-----------------------------------------------------------------------------
(* Claims about parse_tool_calls                                           *)

LogLines == server_log.lines

\* A tool is pending before line i: some earlier tool line has no output line
\* after it.
PendingBefore(i) ==
    \E j \in 1..(i - 1) :
        /\ MatchesTool(LogLines[j])
        /\ \A k \in (j + 1)..(i - 1) : ~MatchesOutput(LogLines[k])
Emits(i) == MatchesOutput(LogLines[i]) /\ PendingBefore(i)
LastToolBefore(i) ==
    LET j == CHOOSE j \in 1..(i - 1) :
                /\ MatchesTool(LogLines[j])
                /\ \A k \in (j + 1)..(i - 1) : ~MatchesTool(LogLines[k])
    IN  LogLines[j].text
EmittingLines(n) == SelectSeq([i \in 1..n |-> i], LAMBDA i : Emits(i))

\* C4: the scanner has two states, idle and awaiting-output.  After any number
\* of lines, the calls emitted are exactly one per output line that arrived
\* while a tool was pending, in log order, each for the last tool line before
\* it; a tool is pending exactly when a tool line has been read and no output
\* line since.  So a tool line followed by a tool line or by the end of input
\* yields no call, and an output line seen while idle yields no call.
C4_TwoStateScanner ==
    pc \in {"scan", "done"} =>
        LET idx == EmittingLines(lineno - 1)
        IN  /\ Len(calls) = Len(idx)
            /\ \A k \in 1..Len(idx) :
                  /\ calls[k].tool = LastToolBefore(idx[k])
                  /\ calls[k].output = LogLines[idx[k]].text
            /\ (current_tool # NoneText) <=> PendingBefore(lineno)

\* C4 witness: a tool line discarded by the next tool line, one call emitted,
\* and the following output line an orphan.
C4_Witness ==
    /\ pc = "done"
    /\ Len(LogLines) = 4
    /\ MatchesTool(LogLines[1]) /\ MatchesTool(LogLines[2])
    /\ MatchesOutput(LogLines[3]) /\ MatchesOutput(LogLines[4])
    /\ Len(calls) = 1
    /\ calls[1].tool = LogLines[2].text

Recognized(line) == MatchesTool(line) \/ MatchesArgs(line) \/ MatchesOutput(line)
WithoutUnrecognized(log) ==
    [missing |-> log.missing, lines |-> SelectSeq(log.lines, Recognized)]

\* C5: lines matching none of the recognized markers, "Tool executed
\* successfully" lines included, do not change the result: the calls returned
\* for a log are those returned for the log without these lines, and a log
\* with no recognized marker, an empty log and a missing log yield no call.
C5_UnrecognizedLinesIgnored ==
    pc = "done" =>
        /\ calls = ParseToolCalls(WithoutUnrecognized(server_log))
        /\ (\A i \in 1..Len(LogLines) : ~Recognized(LogLines[i])) => calls = <<>>

\* C5 witness: an executed line and a noise line between a tool line and its
\* output line, and the call is emitted.
C5_Witness ==
    /\ pc = "done"
    /\ Len(LogLines) = 4
    /\ MatchesTool(LogLines[1])
    /\ MatchesExecuted(LogLines[2])
    /\ LogLines[3].marker = "Other"
    /\ MatchesOutput(LogLines[4])
    /\ Len(calls) = 1

\* marker occurs in text entirely within its first n characters
OccursWithin(text, marker, n) ==
    \E start \in 0..(Len(text) - Len(marker)) :
        /\ start + Len(marker) <= n
        /\ \A k \in 1..Len(marker) : text[start + k] = marker[k]
OccursAfter(text, marker, n) ==
    \E start \in 0..(Len(text) - Len(marker)) :
        /\ start >= n
        /\ \A k \in 1..Len(marker) : text[start + k] = marker[k]

\* C6: the outcome of every emitted call is decided by the first 300
\* characters of its output: ERROR_OR_TIMEOUT iff they contain both the
\* "error" marker and the text timed out; otherwise HAS_DATA iff they contain
\* the "data" marker and no "error" marker; otherwise EMPTY_NO_DATA.
C6_OutcomeFromPrefix ==
    \A k \in 1..Len(calls) :
        LET c == calls[k]
            e == OccursWithin(c.output, ErrorMarker, PrefixLen)
            t == OccursWithin(c.output, TimedOutMarker, PrefixLen)
            d == OccursWithin(c.output, DataMarker, PrefixLen)
        IN  OutcomeOf(c) = IF e /\ t THEN "ERROR_OR_TIMEOUT"
                           ELSE IF d /\ ~e THEN "HAS_DATA"
                           ELSE "EMPTY_NO_DATA"

\* C6 witness: both error markers inside the prefix, a data marker after it.
C6_Witness ==
    \E k \in 1..Len(calls) :
        /\ OccursWithin(calls[k].output, ErrorMarker, PrefixLen)
        /\ OccursWithin(calls[k].output, TimedOutMarker, PrefixLen)
        /\ OccursAfter(calls[k].output, DataMarker, PrefixLen)
        /\ OutcomeOf(calls[k]) = "ERROR_OR_TIMEOUT"

\* C7: every call whose output carries an error marker and no data marker
\* within the 300-character prefix is classified ERROR_OR_TIMEOUT, not
\* EMPTY_NO_DATA.
C7_ErrorTakesPrecedence ==
    \A k \in 1..Len(calls) :
        (/\ OccursWithin(calls[k].output, ErrorMarker, PrefixLen)
         /\ ~OccursWithin(calls[k].output, DataMarker, PrefixLen))
        => OutcomeOf(calls[k]) = "ERROR_OR_TIMEOUT"

-----------------------------------------------------------------------------
(* parse_json_file: the row of one query, built from its calls             *)

Raised == <<"<raised>">>

TraceKnow == <<"1","_","k","n","o","w">>
TraceIndicators == <<"2","_","i","n","d","i","c","a","t","o","r","s","(">>
TraceMetadata == <<"3","_","m","e","t","a","d","a","t","a","(">>
TraceInd == <<",","i","n","d","=">>
TraceData == <<"4","_","d","a","t","a","(">>
Arrow == <<" ","-",">"," ">>
DatasetKey == <<"d","a","t","a","s","e","t">>

\* args.get(key, "?") on a dict
GetOr(value, default) == IF value = Missing THEN default ELSE value

\* lines 94-111: the token of one call; args.get raises when args is no dict
TracePart(c) ==
    IF c.tool = KNOW_TOOL THEN TraceKnow
    ELSE IF c.tool \in {INDICATORS_TOOL, METADATA_TOOL, DATA_TOOL} /\ c.args.type # "dict"
         THEN Raised
    ELSE IF c.tool = INDICATORS_TOOL
         THEN TraceIndicators \o GetOr(c.args.dataset, <<"?">>) \o <<")">>
    ELSE IF c.tool = METADATA_TOOL
         THEN TraceMetadata \o GetOr(c.args.dataset, <<"?">>) \o TraceInd
              \o GetOr(c.args.indicator_code, <<"?">>) \o <<")">>
    ELSE IF c.tool = DATA_TOOL
         THEN TraceData \o GetOr(c.args.dataset, <<"?">>) \o <<")", "[">>
              \o (IF c.has_data THEN <<"O","K">>
                  ELSE IF c.is_error THEN <<"E","R","R">>
                  ELSE <<"E","M","P","T","Y">>)
              \o <<"]">>
    ELSE c.tool

\* lines 90-113
SummarizeToolTrace(cs) ==
    IF \E k \in 1..Len(cs) : TracePart(cs[k]) = Raised THEN Raised
    ELSE JoinWith([k \in 1..Len(cs) |-> TracePart(cs[k])], Arrow)

\* "dataset" in args: a key of a dict, a substring of a str
DatasetIn(args) ==
    IF args.type = "dict" THEN args.dataset # Missing
    ELSE Contains(args.text, DatasetKey)

\* lines 118-126, from call k on
RECURSIVE DetectFrom(_, _)
DetectFrom(cs, k) ==
    IF k > Len(cs) THEN <<>>
    ELSE LET args == cs[k].args
         IN  IF DatasetIn(args)
             THEN (IF args.type = "dict" THEN args.dataset ELSE Raised)
             ELSE IF args.type = "dict" /\ args.filters.type # "missing"
                     /\ args.filters.type = "dict" /\ args.filters.dataset # Missing
                  THEN args.filters.dataset
             ELSE DetectFrom(cs, k + 1)

\* lines 116-126
DetectDatasetUsed(cs) == DetectFrom(cs, 1)

\* parse_results.py lines 174-189: tool_all_calls and tool_all_outputs, dicts
\* whose keys are the tool names in the order of their first call

\* the tool names of cs[i..], those of seen left out
RECURSIVE ToolNamesFrom(_, _, _)
ToolNamesFrom(cs, i, seen) ==
    IF i > Len(cs) THEN seen
    ELSE ToolNamesFrom(cs, i + 1,
                       IF \E j \in 1..Len(seen) : seen[j] = cs[i].tool
                       THEN seen ELSE Append(seen, cs[i].tool))
ToolNames(cs) == ToolNamesFrom(cs, 1, <<>>)

\* lines 184-189: what is stored of one call
CallEntry(c) ==
    [args |-> c.args, output |-> c.output, has_data |-> c.has_data,
     is_error |-> c.is_error]

\* the calls of one tool, in call order
CallsOf(cs, tool) == SelectSeq(cs, LAMBDA c : c.tool = tool)

\* Mutant of EntriesOf: only the last call of a tool is kept.
EntriesOf_LastOnly(cs, tool) ==
    <<CallEntry(CallsOf(cs, tool)[Len(CallsOf(cs, tool))])>>

\* tool_all_calls[tool]
EntriesOf(cs, tool) ==
    [j \in 1..Len(CallsOf(cs, tool)) |-> CallEntry(CallsOf(cs, tool)[j])]

\* tool_all_calls, as the sequence of its items
ToolAllCalls(cs) ==
    [i \in 1..Len(ToolNames(cs)) |->
        [tool |-> ToolNames(cs)[i], calls |-> EntriesOf(cs, ToolNames(cs)[i])]]

\* lines 192-195: (tool_all_outputs.get(tool) or [""])[-1]
LastOutput(cs, tool) ==
    IF CallsOf(cs, tool) = <<>> THEN <<>>
    ELSE CallsOf(cs, tool)[Len(CallsOf(cs, tool))].output

\* json.dumps(..., default=str) of an args value: a dict of texts is an
\* object, a str a string, None is null
JsonOfArgs(args) ==
    CASE args.type = "dict" -> [json |-> "object", members |-> args, text |-> <<>>]
      [] args.type = "str" -> [json |-> "string", members |-> EmptyDict, text |-> args.text]
      [] OTHER -> [json |-> "null", members |-> EmptyDict, text |-> <<>>]

\* line 197: all_calls_json, the JSON document of tool_all_calls: an object
\* with one member for each tool, an array of objects as its value
JsonDumps(tool_all_calls) ==
    [i \in 1..Len(tool_all_calls) |->
        [key |-> tool_all_calls[i].tool,
         value |-> [j \in 1..Len(tool_all_calls[i].calls) |->
                      [args |-> JsonOfArgs(tool_all_calls[i].calls[j].args),
                       output |-> tool_all_calls[i].calls[j].output,
                       has_data |-> tool_all_calls[i].calls[j].has_data,
                       is_error |-> tool_all_calls[i].calls[j].is_error]]]]

\* json.loads of an args value
ArgsOfJson(j) ==
    CASE j.json = "object" -> j.members
      [] j.json = "string" -> ArgsStr(j.text)
      [] OTHER -> ArgsNone

\* judge.py lines 202-204: the status shown to the judge
StatusOf(has_data, is_error) ==
    IF has_data THEN "DATA" ELSE IF is_error THEN "ERROR/TIMEOUT" ELSE "EMPTY/NO_DATA"

\* judge.py lines 191-205: json.loads(raw) and what the loop reads of every
\* call of every tool
AllCallsRead(raw) ==
    [i \in 1..Len(raw) |->
        [tool |-> raw[i].key,
         calls |-> [j \in 1..Len(raw[i].value) |->
                      [args |-> ArgsOfJson(raw[i].value[j].args),
                       output |-> raw[i].value[j].output,
                       has_data |-> raw[i].value[j].has_data,
                       is_error |-> raw[i].value[j].is_error,
                       status |-> StatusOf(raw[i].value[j].has_data,
                                           raw[i].value[j].is_error)]]]]

\* line 209: the correct_routing column
CorrectRouting(routed, expected) ==
    IF routed = expected THEN "YES" ELSE IF routed # <<>> THEN "WRONG" ELSE "N/A"

\* lines 81-87: args.get raises when the last 4_get_data call's args is no dict
ExtractGetDataArgsRaises(cs) ==
    \E k \in 1..Len(cs) :
        /\ cs[k].tool = DATA_TOOL
        /\ \A j \in (k + 1)..Len(cs) : cs[j].tool # DATA_TOOL
        /\ cs[k].args.type # "dict"

BuildRowRaises(cs) ==
    \/ ExtractGetDataArgsRaises(cs)
    \/ DetectDatasetUsed(cs) = Raised
    \/ SummarizeToolTrace(cs) = Raised

\* lines 164-224
BuildRow ==
    /\ pc = "parsed"
    /\ ~BuildRowRaises(calls)
    /\ row' = [dataset |-> dataset,
               dataset_routed_to |-> DetectDatasetUsed(calls),
               correct_routing |-> CorrectRouting(DetectDatasetUsed(calls), dataset),
               tool_trace |-> SummarizeToolTrace(calls),
               metadata_output |-> LastOutput(calls, METADATA_TOOL),
               all_tool_calls |-> JsonDumps(ToolAllCalls(calls))]
    /\ pc' = "row"
    /\ UNCHANGED <<scanVars, calls, dataset, routed_column, score_routing, score_ordering>>
    /\ UNCHANGED <<ledgerVars, judgeVars>>
    /\ UNCHANGED <<testerVars, merger>>

\* lines 164-224, an exception leaving parse_json_file
BuildRowFails ==
    /\ pc = "parsed"
    /\ BuildRowRaises(calls)
    /\ pc' = "raised"
    /\ UNCHANGED <<scanVars, calls, rowVars, ledgerVars, judgeVars>>
    /\ UNCHANGED <<testerVars, merger>>

-----------------------------------------------------------------------------
(* judge.py: the two local scorers                                         *)

Digits == {"0","1","2","3","4","5","6","7","8","9"}
Whitespace == {" ", "\t", "\n", "\r"}
LowerLetters == <<"a","b","c","d","e","f","g","h","i","j","k","l","m",
                  "n","o","p","q","r","s","t","u","v","w","x","y","z">>
UpperLetters == <<"A","B","C","D","E","F","G","H","I","J","K","L","M",
                  "N","O","P","Q","R","S","T","U","V","W","X","Y","Z">>

\* row.get(key, "")
RowGet(value) == IF value = Missing THEN <<>> ELSE value

\* str.upper()
UpperChar(ch) ==
    IF \E i \in 1..26 : LowerLetters[i] = ch
    THEN UpperLetters[CHOOSE i \in 1..26 : LowerLetters[i] = ch]
    ELSE ch
Upper(t) == [i \in 1..Len(t) |-> UpperChar(t[i])]

\* str.strip()
RECURSIVE FirstNonSpace(_, _)
FirstNonSpace(t, i) ==
    IF i > Len(t) THEN i
    ELSE IF t[i] \in Whitespace THEN FirstNonSpace(t, i + 1) ELSE i
RECURSIVE LastNonSpace(_, _)
LastNonSpace(t, i) ==
    IF i < 1 THEN i
    ELSE IF t[i] \in Whitespace THEN LastNonSpace(t, i - 1) ELSE i
Strip(t) == SubSeq(t, FirstNonSpace(t, 1), LastNonSpace(t, Len(t)))

\* Mutant of AutoScoreRouting: the labels are compared as written.
AutoScoreRouting_CaseSensitive(r) ==
    LET expected == Strip(RowGet(r.dataset))
        actual == Strip(RowGet(r.dataset_routed_to))
    IN  IF actual = <<>> THEN 0
        ELSE IF actual = expected THEN 1 ELSE 0

\* lines 149-155
AutoScoreRouting(r) ==
    LET expected == Upper(Strip(RowGet(r.dataset)))
        actual == Upper(Strip(RowGet(r.dataset_routed_to)))
    IN  IF actual = <<>> THEN 0
        ELSE IF actual = expected THEN 1 ELSE 0

\* line 165: re.findall(r'(\d)_', trace), scanning from character i
RECURSIVE FindToolNums(_, _)
FindToolNums(trace, i) ==
    IF i >= Len(trace) THEN <<>>
    ELSE IF trace[i] \in Digits /\ trace[i + 1] = "_"
         THEN <<trace[i]>> \o FindToolNums(trace, i + 2)
    ELSE FindToolNums(trace, i + 1)
ToolNums(trace) == FindToolNums(trace, 1)

\* lines 170-173, having looked at tool_nums[1..i-1]
RECURSIVE DedupFrom(_, _, _)
DedupFrom(tool_nums, i, deduped) ==
    IF i > Len(tool_nums) THEN deduped
    ELSE DedupFrom(tool_nums, i + 1,
                   IF tool_nums[i] # deduped[Len(deduped)]
                   THEN Append(deduped, tool_nums[i]) ELSE deduped)
Deduped(tool_nums) == DedupFrom(tool_nums, 2, <<tool_nums[1]>>)

ExpectedOrder == <<"1", "2", "3", "4">>

\* Mutant of MatchFrom: a required step counts wherever it stands.
RECURSIVE MatchFrom_AnyOrder(_, _, _)
MatchFrom_AnyOrder(deduped, i, idx) ==
    Cardinality({k \in 1..4 : \E j \in 1..Len(deduped) : deduped[j] = ExpectedOrder[k]})

\* lines 177-180, having looked at deduped[1..i-1]
RECURSIVE MatchFrom(_, _, _)
MatchFrom(deduped, i, idx) ==
    IF i > Len(deduped) THEN idx
    ELSE MatchFrom(deduped, i + 1,
                   IF idx < Len(ExpectedOrder) /\ deduped[i] = ExpectedOrder[idx + 1]
                   THEN idx + 1 ELSE idx)

\* lines 166-182
ScoreToolNums(tool_nums) ==
    IF tool_nums = <<>> THEN 0
    ELSE IF MatchFrom(Deduped(tool_nums), 1, 0) = 4 THEN 1 ELSE 0

\* lines 158-182
AutoScoreOrdering(r) ==
    LET trace == RowGet(r.tool_trace)
    IN  IF trace = <<>> THEN 0 ELSE ScoreToolNums(ToolNums(trace))

\* the row as csv.DictReader hands it to the judge
JudgeRow ==
    IF routed_column THEN row ELSE [row EXCEPT !.dataset_routed_to = Missing]

\* judge.py lines 331-333
AutoScore ==
    /\ pc = "row"
    /\ score_routing' = AutoScoreRouting(JudgeRow)
    /\ score_ordering' = AutoScoreOrdering(JudgeRow)
    /\ pc' = "scored"
    /\ UNCHANGED <<scanVars, calls, dataset, routed_column, row, ledgerVars, judgeVars>>
    /\ UNCHANGED <<testerVars, merger>>

NextRow == BuildRow \/ BuildRowFails \/ AutoScore

-----------------------------------------------------------------------------
(* Call sequences handed to parse_json_file's row building                 *)

MaxSteps == 5
MaxCalls == 3
MaxDetectCalls == 2
MaxLabelLen == 3

\* a call without an Args line
PlainCall(tool) == MakeCall(tool, ArgsNone, 13, OutDataText)
CallWith(tool, args) == MakeCall(tool, args, 13, OutDataText)

\* calls without arguments, for the step order
StepCalls ==
    {PlainCall(t) : t \in {KNOW_TOOL, INDICATORS_TOOL, METADATA_TOOL, DATA_TOOL, PING_TOOL}}
RetriedSteps ==
    [k \in 1..7 |-> PlainCall(<<KNOW_TOOL, KNOW_TOOL, INDICATORS_TOOL, METADATA_TOOL,
                                METADATA_TOOL, METADATA_TOOL, DATA_TOOL>>[k])]
\* calls whose arguments and tool names are rendered into the trace
TraceCalls ==
    {CallWith(t, a) :
        t \in {KNOW_TOOL, INDICATORS_TOOL, METADATA_TOOL, DATA_TOOL, SEARCH_TOOL},
        a \in {EmptyDict, ArgsDict(DS_3X, Missing, NoFilters)}}
    \cup {CallWith(INDICATORS_TOOL, ArgsDict(PLFS, Missing, NoFilters)),
          CallWith(METADATA_TOOL, ArgsDict(PLFS, <<"5">>, NoFilters)),
          MakeCall(DATA_TOOL, ArgsDict(PLFS, Missing, NoFilters), 22, OutTimeoutText),
          MakeCall(METADATA_TOOL, ArgsDict(PLFS, <<"5">>, NoFilters), 22, OutTimeoutText)}
\* calls that name a dataset in each of the ways the code looks for
DetectCalls ==
    {CallWith(t, a) :
        t \in {KNOW_TOOL, DATA_TOOL},
        a \in {EmptyDict, ArgsDict(CPI, Missing, NoFilters),
               ArgsDict(Missing, Missing, FiltersDict(CPI)),
               ArgsDict(PLFS, Missing, FiltersDict(CPI)),
               ArgsDict(Missing, Missing, FiltersStr),
               ArgsStr(RawDatasetText), ArgsStr(RawOtherText)}}
Labels == BoundedSeq({"c", "C", " "}, MaxLabelLen)

InitRow ==
    /\ \/ /\ \/ \E k \in 0..MaxSteps : calls \in [1..k -> StepCalls]
             \/ calls = RetriedSteps
             \/ \E k \in 1..MaxCalls : calls \in [1..k -> TraceCalls]
             \/ \E k \in 1..MaxDetectCalls : calls \in [1..k -> DetectCalls]
          /\ dataset \in {PLFS, CPI}
          /\ routed_column = TRUE
       \/ /\ \E actual \in Labels :
                calls = <<CallWith(INDICATORS_TOOL, ArgsDict(actual, Missing, NoFilters))>>
          /\ dataset \in Labels
          /\ routed_column \in BOOLEAN
    /\ server_log = LogMissing
    /\ lineno = 1
    /\ current_tool = NoneText
    /\ current_args = ArgsNone
    /\ pc = "parsed"
    /\ row = NoRow
    /\ score_routing = -1
    /\ score_ordering = -1
    /\ benchmark_csv = <<>>
    /\ old_benchmark = <<>>
    /\ merge_args = [new_rows |-> <<>>, platform |-> "", mode |-> ""]
    /\ updated_count = 0
    /\ judge_csv = NoFile
    /\ old_judge_csv = NoFile
    /\ rejudge = FALSE
    /\ update_args = NoUpdate
    /\ judge_args = NoJudgeArgs
    /\ results_csv = NoFile
    /\ old_results = NoFile
    /\ results = <<>>
    /\ row_num = 0
    /\ exit_status = -1
    /\ judge_scores = NoScores
    /\ queries = <<>>
    /\ start_from = 1
    /\ qno = 0
    /\ results_path = NoFile
    /\ merger = NoMerger
    /\ cli = NoCli

SpecRow == InitRow /\ [][NextRow]_vars

-----------------------------------------------------------------------------
(* Claims about the local scorers and the row                              *)

\* s with each run of equal neighbours collapsed to its first element
Collapsed(s) ==
    LET firsts == SelectSeq([i \in 1..Len(s) |-> i],
                            LAMBDA i : i = 1 \/ s[i] # s[i - 1])
    IN  [k \in 1..Len(firsts) |-> s[firsts[k]]]

\* a, b, c, d occur in s in this order, not necessarily next to each other
OccurInOrder(s, a, b, c, d) ==
    \E i1 \in 1..Len(s) :
        /\ s[i1] = a
        /\ \E i2 \in (i1 + 1)..Len(s) :
              /\ s[i2] = b
              /\ \E i3 \in (i2 + 1)..Len(s) :
                    /\ s[i3] = c
                    /\ \E i4 \in (i3 + 1)..Len(s) : s[i4] = d

\* the tool ids of the calls: the digit each tool name starts with
StepIds(cs) == [k \in 1..Len(cs) |-> cs[k].tool[1]]
NoArguments(cs) == \A k \in 1..Len(cs) : cs[k].args = EmptyDict

\* C1: auto_score_ordering returns 1 exactly when 1,2,3,4 occurs as a
\* subsequence of the tool-id sequence with consecutive duplicates collapsed,
\* and 0 otherwise; the tool-id sequence is the one read from the trace, which
\* for calls without arguments is the sequence of the calls' tool ids.  The
\* empty sequence and 2,1,3,4 score 0; 1,1,2,3,3,3,4 scores 1.
C1_OrderingIsSubsequence ==
    pc = "scored" =>
        LET ids == ToolNums(row.tool_trace)
        IN  /\ score_ordering \in {0, 1}
            /\ score_ordering = 1 <=> OccurInOrder(Collapsed(ids), "1", "2", "3", "4")
            /\ NoArguments(calls) => ids = StepIds(calls)
            /\ ids = <<>> => score_ordering = 0
            /\ ids = <<"2", "1", "3", "4">> => score_ordering = 0
            /\ ids = <<"1", "1", "2", "3", "3", "3", "4">> => score_ordering = 1

\* C1 witness: the calls 1,1,2,3,3,3,4 have been scored 1.
C1_Witness ==
    /\ pc = "scored"
    /\ NoArguments(calls)
    /\ StepIds(calls) = <<"1", "1", "2", "3", "3", "3", "4">>
    /\ score_ordering = 1

\* the four protocol tools are each called, one call of each in protocol order
CallsInProtocolOrder(cs) ==
    OccurInOrder([k \in 1..Len(cs) |-> cs[k].tool],
                 KNOW_TOOL, INDICATORS_TOOL, METADATA_TOOL, DATA_TOOL)

\* C2: whenever the ordering score of a query is 1, its call sequence holds a
\* call to each of 1_know_about_mospi_api, 2_get_indicators, 3_get_metadata
\* and 4_get_data, one of each in that order, whatever argument values and
\* unknown tool names are rendered into the trace.
C2_NoStepSkipped ==
    (pc = "scored" /\ score_ordering = 1) => CallsInProtocolOrder(calls)

\* s with n more copies of s[i] put right after s[i]
WithRetries(s, i, n) ==
    SubSeq(s, 1, i) \o [k \in 1..n |-> s[i]] \o SubSeq(s, i + 1, Len(s))

MaxRetries == 2

\* C3: the ordering verdict is invariant under retries: putting any number of
\* copies of a call right next to that call in the call sequence of a query
\* does not change the result of auto_score_ordering.
C3_RetryInvariant ==
    pc = "scored" =>
        \A i \in 1..Len(calls) : \A n \in 1..MaxRetries :
            AutoScoreOrdering(
                [row EXCEPT !.tool_trace =
                    SummarizeToolTrace(WithRetries(calls, i, n))]) = score_ordering

\* a and b are the same letter in either case, or the same character
SameIgnoringCase(a, b) ==
    \/ a = b
    \/ \E i \in 1..26 : {a, b} = {LowerLetters[i], UpperLetters[i]}
\* t without the whitespace around it
Trimmed(t) ==
    LET inner == {i \in 1..Len(t) : t[i] \notin Whitespace}
    IN  IF inner = {} THEN <<>>
        ELSE SubSeq(t, CHOOSE i \in inner : \A j \in inner : i <= j,
                       CHOOSE i \in inner : \A j \in inner : i >= j)
EqualIgnoringCase(t, u) ==
    /\ Len(t) = Len(u)
    /\ \A i \in 1..Len(t) : SameIgnoringCase(t[i], u[i])

\* C8: auto_score_routing returns 1 iff the routed label, surrounding
\* whitespace aside, is non-empty and equals the expected label ignoring case
\* and surrounding whitespace; otherwise 0: a mismatch scores 0, and an empty
\* or missing routed label scores 0 even when the expected label is empty.
C8_RoutingCaseInsensitive ==
    pc = "scored" =>
        LET actual == Trimmed(IF routed_column THEN row.dataset_routed_to ELSE <<>>)
            expected == Trimmed(row.dataset)
        IN  /\ score_routing \in {0, 1}
            /\ score_routing = 1 <=>
                  (actual # <<>> /\ EqualIgnoringCase(actual, expected))

\* C8 witness: labels that differ in case and in surrounding whitespace
\* score 1.
C8_Witness ==
    /\ pc = "scored"
    /\ score_routing = 1
    /\ row.dataset # row.dataset_routed_to
    /\ Trimmed(row.dataset_routed_to) # row.dataset_routed_to
    /\ Trimmed(row.dataset) # Trimmed(row.dataset_routed_to)

\* the call's arguments name a dataset, directly or nested under filters
NamesDataset(c) ==
    /\ c.args.type = "dict"
    /\ \/ c.args.dataset # Missing
       \/ c.args.filters.type = "dict" /\ c.args.filters.dataset # Missing
NamedDataset(c) ==
    IF c.args.dataset # Missing THEN c.args.dataset ELSE c.args.filters.dataset

\* C9: the dataset label of a query, once its log is parsed, is the dataset
\* named by the first call, in call order, whose arguments name a dataset
\* directly or nested under filters, the direct one winning inside one call;
\* it is empty when no call names a dataset.
C9_FirstNamedDataset ==
    pc \in {"row", "scored", "raised"} =>
        IF \E k \in 1..Len(calls) : NamesDataset(calls[k])
        THEN LET first == CHOOSE k \in 1..Len(calls) :
                             /\ NamesDataset(calls[k])
                             /\ \A j \in 1..(k - 1) : ~NamesDataset(calls[j])
             IN  DetectDatasetUsed(calls) = NamedDataset(calls[first])
        ELSE DetectDatasetUsed(calls) = <<>>

-----------------------------------------------------------------------------
(* merge_results.py: merge_into_benchmark, lines 28-65                     *)

\* a key the dict does not hold; a cell the csv row does not have
Absent == "<absent>"

\* the header of the ledger file (reader.fieldnames, line 36)
LedgerFields == {"platform", "mode", "dataset", "no", "status"}

\* every key a dict of new_rows may hold; "extra" is not a column of the ledger
RowFields == LedgerFields \cup {"extra"}

LedgerRow(platform, no, status) ==
    [platform |-> platform, mode |-> "single", dataset |-> "PLFS",
     no |-> no, status |-> status, extra |-> Absent]

NewRow(platform, no, status, extra) ==
    [platform |-> platform, mode |-> "single", dataset |-> "PLFS",
     no |-> no, status |-> status, extra |-> extra]

\* row.get(k, default)
Get(r, k, default) == IF r[k] = Absent THEN default ELSE r[k]

\* int(text) raises ValueError
IntRaises(text) == text \notin {"0", "1", "2", "3", "4"}

\* int(text)
IntOf(text) ==
    CASE text = "0" -> 0
      [] text = "1" -> 1
      [] text = "2" -> 2
      [] text = "3" -> 3
      [] text = "4" -> 4
      [] OTHER -> -1

\* lines 43-44: the key of a row of new_rows
NewKey(r, platform, mode) ==
    <<Get(r, "platform", platform), Get(r, "mode", mode),
      Get(r, "dataset", "<None>"), IntOf(Get(r, "no", "0"))>>

\* line 50: the key of a row of the ledger
ExistingKey(r) ==
    <<Get(r, "platform", "<None>"), Get(r, "mode", "<None>"),
      Get(r, "dataset", "<None>"), IntOf(Get(r, "no", "0"))>>

\* lines 41-45: new_lookup, a later row replacing an earlier one of the same key
RECURSIVE NewLookupFrom(_, _, _, _, _)
NewLookupFrom(rows, i, platform, mode, lookup) ==
    IF i > Len(rows) THEN lookup
    ELSE LET key == NewKey(rows[i], platform, mode)
         IN  NewLookupFrom(rows, i + 1, platform, mode,
                 [k \in DOMAIN lookup \cup {key} |->
                     IF k = key THEN rows[i] ELSE lookup[k]])

\* Mutant of NewLookup: the first row of a key is the one that stays.
NewLookup_FirstWins(rows, platform, mode) ==
    NewLookupFrom([i \in 1..Len(rows) |-> rows[Len(rows) + 1 - i]], 1, platform, mode,
                  [k \in {} |-> NewRow("", "", "", "")])

NewLookup(rows, platform, mode) ==
    NewLookupFrom(rows, 1, platform, mode, [k \in {} |-> NewRow("", "", "", "")])

\* Mutant of UpdateRow: the ledger row is replaced by the new row, the cells
\* the new row does not supply left empty.
UpdateRow_Replace(r, new) ==
    [platform |-> Get(new, "platform", ""),
     mode     |-> Get(new, "mode", ""),
     dataset  |-> Get(new, "dataset", ""),
     no       |-> Get(new, "no", ""),
     status   |-> Get(new, "status", ""),
     extra    |-> Get(new, "extra", r.extra)]

\* lines 53-54: for k, v in new_lookup[key].items(): existing_rows[i][k] = v
UpdateRow(r, new) ==
    [platform |-> Get(new, "platform", r.platform),
     mode     |-> Get(new, "mode", r.mode),
     dataset  |-> Get(new, "dataset", r.dataset),
     no       |-> Get(new, "no", r.no),
     status   |-> Get(new, "status", r.status),
     extra    |-> Get(new, "extra", r.extra)]

\* lines 48-56: existing_rows after the merge loop
MergeRows(existing, rows, platform, mode) ==
    LET lookup == NewLookup(rows, platform, mode)
    IN  [i \in 1..Len(existing) |->
            IF ExistingKey(existing[i]) \in DOMAIN lookup
            THEN UpdateRow(existing[i], lookup[ExistingKey(existing[i])])
            ELSE existing[i]]

\* lines 48-56: updated_count
UpdatedCount(existing, rows, platform, mode) ==
    Cardinality({i \in 1..Len(existing) :
        ExistingKey(existing[i]) \in DOMAIN NewLookup(rows, platform, mode)})

\* lines 44 and 50: int() raises before the file is opened for writing
KeyRaises(existing, rows) ==
    \/ \E i \in 1..Len(rows) : IntRaises(Get(rows[i], "no", "0"))
    \/ \E i \in 1..Len(existing) : IntRaises(Get(existing[i], "no", "0"))

\* line 62: DictWriter raises ValueError on a dict with a key outside fieldnames
WriteRaises(r) == \E k \in RowFields \ LedgerFields : r[k] # Absent

\* lines 59-62: the rows the file holds once writerows has returned or raised
Written(rows) ==
    IF \E i \in 1..Len(rows) : WriteRaises(rows[i])
    THEN SubSeq(rows, 1,
            (CHOOSE i \in 1..Len(rows) :
                /\ WriteRaises(rows[i])
                /\ \A j \in 1..(i - 1) : ~WriteRaises(rows[j])) - 1)
    ELSE rows

\* the inputs of the ledger model
MaxRows == 2
MaxNewRows == 2
Platforms == {"claude", "chatgpt"}

\* rows of a ledger file: every column filled, no other key
LedgerRows ==
    {LedgerRow(p, n, IF n = "1" THEN "TIMEOUT" ELSE "OK") :
        p \in Platforms, n \in {"1", "2"}}

\* rows parsed from a re-run: with and without a platform, with a number the
\* ledger holds and one it does not, without a number, with an unknown column
NewRows ==
    {NewRow(p, n, "RERUN", Absent) : p \in {Absent, "chatgpt"}, n \in {"1", "3"}}
    \cup {NewRow("claude", "2", "RERUN", Absent),
          NewRow(Absent, "1", Absent, Absent),
          NewRow(Absent, "1", "AGAIN", Absent),
          NewRow(Absent, "", "RERUN", Absent),
          NewRow(Absent, "1", "RERUN", "e")}

NewRowInputs == UNION {[1..n -> NewRows] : n \in 0..MaxNewRows}

\* the query numbers a targeted re-run names: two the ledger may hold, one it
\* does not
QueryNumbers == {1, 2, 3}

\* the whole of merge_into_benchmark, returning updated_count
MergeIntoBenchmark ==
    /\ pc = "ledger"
    /\ cli.benchmark_exists
    /\ \E rows \in NewRowInputs : \E platform \in Platforms :
        /\ ~KeyRaises(benchmark_csv, rows)
        /\ \A i \in 1..Len(MergeRows(benchmark_csv, rows, platform, "single")) :
              ~WriteRaises(MergeRows(benchmark_csv, rows, platform, "single")[i])
        /\ merge_args' = [new_rows |-> rows, platform |-> platform, mode |-> "single"]
        /\ benchmark_csv' = Written(MergeRows(benchmark_csv, rows, platform, "single"))
        /\ updated_count' = UpdatedCount(benchmark_csv, rows, platform, "single")
    /\ old_benchmark' = benchmark_csv
    /\ pc' = "merged"
    /\ UNCHANGED <<scanVars, calls, rowVars, judgeVars, judgeLedgerVars>>
    /\ UNCHANGED <<testerVars, merger>>

\* lines 44 and 50 raise: the file was only read
MergeFailsOnKey ==
    /\ pc = "ledger"
    /\ cli.benchmark_exists
    /\ \E rows \in NewRowInputs : \E platform \in Platforms :
        /\ KeyRaises(benchmark_csv, rows)
        /\ merge_args' = [new_rows |-> rows, platform |-> platform, mode |-> "single"]
    /\ old_benchmark' = benchmark_csv
    /\ pc' = "merge_raised"
    /\ UNCHANGED <<scanVars, calls, rowVars, benchmark_csv, updated_count, judgeVars>>
    /\ UNCHANGED judgeLedgerVars
    /\ UNCHANGED <<testerVars, merger>>

\* line 62 raises: the file was opened with "w" and holds what was written
\* before the row DictWriter refused
MergeFailsOnWrite ==
    /\ pc = "ledger"
    /\ cli.benchmark_exists
    /\ \E rows \in NewRowInputs : \E platform \in Platforms :
        /\ ~KeyRaises(benchmark_csv, rows)
        /\ \E i \in 1..Len(MergeRows(benchmark_csv, rows, platform, "single")) :
              WriteRaises(MergeRows(benchmark_csv, rows, platform, "single")[i])
        /\ merge_args' = [new_rows |-> rows, platform |-> platform, mode |-> "single"]
        /\ benchmark_csv' = Written(MergeRows(benchmark_csv, rows, platform, "single"))
    /\ old_benchmark' = benchmark_csv
    /\ pc' = "write_raised"
    /\ UNCHANGED <<scanVars, calls, rowVars, updated_count, judgeVars, judgeLedgerVars>>
    /\ UNCHANGED <<testerVars, merger>>

\* lines 30-62: the rows the ledger file holds when merge_into_benchmark has
\* returned or raised
MergeOutcome(existing, rows, platform, mode) ==
    IF KeyRaises(existing, rows) THEN existing
    ELSE Written(MergeRows(existing, rows, platform, mode))

\* lines 30-65: merge_into_benchmark returns
MergeReturns(existing, rows, platform, mode) ==
    /\ ~KeyRaises(existing, rows)
    /\ \A i \in 1..Len(existing) :
          ~WriteRaises(MergeRows(existing, rows, platform, mode)[i])

\* the whole of merge_into_benchmark once more, with the arguments of the
\* call before, on the file that call left
MergeAgain ==
    /\ pc \in {"merged", "merge_raised", "write_raised"}
    /\ benchmark_csv' = MergeOutcome(benchmark_csv, merge_args.new_rows,
                                     merge_args.platform, merge_args.mode)
    /\ updated_count' =
          IF MergeReturns(benchmark_csv, merge_args.new_rows,
                          merge_args.platform, merge_args.mode)
          THEN UpdatedCount(benchmark_csv, merge_args.new_rows,
                            merge_args.platform, merge_args.mode)
          ELSE updated_count
    /\ old_benchmark' = benchmark_csv
    /\ pc' = "merged_again"
    /\ UNCHANGED <<scanVars, calls, rowVars, merge_args, judgeVars, judgeLedgerVars>>
    /\ UNCHANGED <<testerVars, merger>>

\* merge_results.py: merge_into_judge, lines 68-106

\* the row judge.py wrote for a ledger row: the evidence cells, the two local
\* scores and the ten cells the judge produced
JudgedRow(r) ==
    [platform |-> r.platform, mode |-> r.mode, dataset |-> r.dataset,
     no |-> r.no, status |-> r.status, extra |-> Absent,
     score_routing |-> "1", score_ordering |-> "0",
     score_filter_accuracy |-> "N/A", filter_notes |-> "filter note",
     score_data_retrieval |-> "1", data_notes |-> "data note",
     score_response_quality |-> "0", response_notes |-> "response note",
     score_behavior |-> "1", behavior_notes |-> "behavior note",
     total_score |-> "3", judge_reasoning |-> "thoughts"]
JudgedRows(rows) == [i \in 1..Len(rows) |-> JudgedRow(rows[i])]

\* Mutant of ClearScores: the two local scores are cleared too.
ClearScores_AllScores(r) ==
    [r EXCEPT !.score_filter_accuracy = "", !.score_data_retrieval = "",
              !.score_response_quality = "", !.score_behavior = "",
              !.filter_notes = "", !.data_notes = "", !.response_notes = "",
              !.behavior_notes = "", !.total_score = "", !.judge_reasoning = "",
              !.score_routing = "", !.score_ordering = ""]

\* lines 93-96: the cells set to "" (every one is a column of the file)
ClearScores(r) ==
    [r EXCEPT !.score_filter_accuracy = "", !.score_data_retrieval = "",
              !.score_response_quality = "", !.score_behavior = "",
              !.filter_notes = "", !.data_notes = "", !.response_notes = "",
              !.behavior_notes = "", !.total_score = "", !.judge_reasoning = ""]

\* merge_results main, lines 146-150: updated_queries
UpdatedQueries(rows, platform, mode) ==
    {NewKey(rows[j], platform, mode) : j \in 1..Len(rows)}

\* lines 87-98: existing_rows after the loop
MergeJudgeRows(existing, updated_queries, rj) ==
    [i \in 1..Len(existing) |->
        IF ExistingKey(existing[i]) \in updated_queries /\ rj
        THEN ClearScores(existing[i])
        ELSE existing[i]]

\* the whole of merge_into_judge, called by main once merge_into_benchmark
\* has returned (main lines 143-155)
MergeIntoJudge ==
    /\ pc = "merged"
    /\ judge_csv.exists
    /\ \A i \in 1..Len(judge_csv.rows) : ~IntRaises(Get(judge_csv.rows[i], "no", "0"))
    /\ judge_csv' = File(MergeJudgeRows(judge_csv.rows,
                        UpdatedQueries(merge_args.new_rows, merge_args.platform,
                                       merge_args.mode), rejudge))
    /\ old_judge_csv' = judge_csv
    /\ pc' = "judge_merged"
    /\ UNCHANGED <<scanVars, calls, rowVars, judgeVars>>
    /\ UNCHANGED <<benchmark_csv, old_benchmark, merge_args, updated_count, rejudge,
                   update_args>>
    /\ UNCHANGED <<testerVars, merger>>

\* lines 73-75: the judge csv does not exist
MergeIntoJudgeNoFile ==
    /\ pc = "merged"
    /\ ~judge_csv.exists
    /\ old_judge_csv' = judge_csv
    /\ pc' = "judge_merged"
    /\ UNCHANGED <<scanVars, calls, rowVars, judgeVars>>
    /\ UNCHANGED <<benchmark_csv, old_benchmark, merge_args, updated_count,
                   judge_csv, rejudge, update_args>>
    /\ UNCHANGED <<testerVars, merger>>

\* rerun_failed.py: update_benchmark_csv, lines 127-152

\* the dict judge_single_query returns when the judge failed (lines 183-191)
\* and when it answered (lines 199-209): the keys it holds, as csv writes them
ErrorScores ==
    [score_routing |-> "1", score_ordering |-> "1",
     score_filter_accuracy |-> "ERR", filter_notes |-> Absent,
     score_data_retrieval |-> "ERR", data_notes |-> Absent,
     score_response_quality |-> "ERR", response_notes |-> Absent,
     score_behavior |-> "ERR", behavior_notes |-> Absent,
     total_score |-> "2/6", judge_reasoning |-> Absent]
AnsweredScores ==
    [score_routing |-> "1", score_ordering |-> "1",
     score_filter_accuracy |-> "1", filter_notes |-> "new filter note",
     score_data_retrieval |-> "1", data_notes |-> "new data note",
     score_response_quality |-> "1", response_notes |-> "new response note",
     score_behavior |-> "1", behavior_notes |-> "new behavior note",
     total_score |-> "6/6", judge_reasoning |-> "new thoughts"]

\* lines 136-138: the row is the one to update; the platform is not looked at
UpdateMatches(r, mode, ds, query_no) ==
    /\ Get(r, "mode", "<None>") = mode
    /\ Get(r, "dataset", "<None>") = ds
    /\ IntOf(Get(r, "no", "0")) = query_no

\* line 140: row.update(new_row)
UpdateWith(r, new_row) ==
    [f \in DOMAIN r |->
        IF f \in DOMAIN new_row /\ new_row[f] # Absent THEN new_row[f] ELSE r[f]]

\* lines 133-142: rows
UpdatedRows(rows, mode, ds, query_no, new_row) ==
    [i \in 1..Len(rows) |->
        IF UpdateMatches(rows[i], mode, ds, query_no)
        THEN UpdateWith(rows[i], new_row) ELSE rows[i]]

\* the whole of update_benchmark_csv on the judge csv (main line 287); the
\* file is rewritten only when a row matched (lines 144-152)
UpdateBenchmarkCsv ==
    /\ pc = "ledger"
    /\ judge_csv.exists
    /\ \A i \in 1..Len(judge_csv.rows) : ~IntRaises(Get(judge_csv.rows[i], "no", "0"))
    /\ \E query_no \in QueryNumbers : \E new_row \in {ErrorScores, AnsweredScores} :
          LET updated == \E i \in 1..Len(judge_csv.rows) :
                            UpdateMatches(judge_csv.rows[i], "single", "PLFS", query_no)
          IN  /\ update_args' = [mode |-> "single", dataset |-> "PLFS",
                                 query_no |-> query_no, new_row |-> new_row,
                                 updated |-> updated]
              /\ judge_csv' = IF updated
                              THEN File(UpdatedRows(judge_csv.rows, "single", "PLFS",
                                                    query_no, new_row))
                              ELSE judge_csv
    /\ old_judge_csv' = judge_csv
    /\ pc' = "updated"
    /\ UNCHANGED <<scanVars, calls, rowVars, judgeVars>>
    /\ UNCHANGED <<benchmark_csv, old_benchmark, merge_args, updated_count, rejudge>>
    /\ UNCHANGED <<testerVars, merger>>

\* merge_results.py: main, lines 109-160

\* lines 121-136 let main go on to the merge
MainReachesMerge ==
    /\ cli.benchmark_exists
    /\ AllFilesOpen(cli.json_files)
    /\ CountRows(cli.json_files) > 0

\* lines 121-124: the benchmark csv is missing
MergeMainBenchmarkMissing ==
    /\ pc = "ledger"
    /\ cli.json_files # <<>>
    /\ ~cli.benchmark_exists
    /\ exit_status' = 1
    /\ pc' = "merge_exited"
    /\ UNCHANGED <<scanVars, calls, rowVars, ledgerVars>>
    /\ UNCHANGED <<judge_args, results_csv, old_results, results, row_num, judge_scores, cli>>
    /\ UNCHANGED <<testerVars, merger>>

\* lines 128-130: parse_json_file raises on a JSON file that is not there, and
\* the interpreter ends with status 1
MergeMainFileMissing ==
    /\ pc = "ledger"
    /\ cli.json_files # <<>>
    /\ cli.benchmark_exists
    /\ ~AllFilesOpen(cli.json_files)
    /\ exit_status' = 1
    /\ pc' = "merge_exited"
    /\ UNCHANGED <<scanVars, calls, rowVars, ledgerVars>>
    /\ UNCHANGED <<judge_args, results_csv, old_results, results, row_num, judge_scores, cli>>
    /\ UNCHANGED <<testerVars, merger>>

\* lines 134-136: the JSON files hold no row
MergeMainNoRows ==
    /\ pc = "ledger"
    /\ cli.json_files # <<>>
    /\ cli.benchmark_exists
    /\ AllFilesOpen(cli.json_files)
    /\ CountRows(cli.json_files) = 0
    /\ exit_status' = 1
    /\ pc' = "merge_exited"
    /\ UNCHANGED <<scanVars, calls, rowVars, ledgerVars>>
    /\ UNCHANGED <<judge_args, results_csv, old_results, results, row_num, judge_scores, cli>>
    /\ UNCHANGED <<testerVars, merger>>

\* lines 143-160: the merge main called has returned, with --judge or
\* without it, and main returns
MergeMainReturns ==
    /\ pc \in {"merged", "judge_merged"}
    /\ MainReachesMerge
    /\ Len(merge_args.new_rows) = CountRows(cli.json_files)
    /\ exit_status' = 0
    /\ pc' = "merge_exited"
    /\ UNCHANGED <<scanVars, calls, rowVars, ledgerVars>>
    /\ UNCHANGED <<judge_args, results_csv, old_results, results, row_num, judge_scores, cli>>
    /\ UNCHANGED <<testerVars, merger>>

\* line 143: the merge main called has raised, and the interpreter ends with
\* status 1
MergeMainRaises ==
    /\ pc \in {"merge_raised", "write_raised"}
    /\ MainReachesMerge
    /\ Len(merge_args.new_rows) = CountRows(cli.json_files)
    /\ exit_status' = 1
    /\ pc' = "merge_exited"
    /\ UNCHANGED <<scanVars, calls, rowVars, ledgerVars>>
    /\ UNCHANGED <<judge_args, results_csv, old_results, results, row_num, judge_scores, cli>>
    /\ UNCHANGED <<testerVars, merger>>

NextLedger ==
    \/ MergeIntoBenchmark \/ MergeFailsOnKey \/ MergeFailsOnWrite \/ MergeAgain
    \/ MergeIntoJudge \/ MergeIntoJudgeNoFile
    \/ UpdateBenchmarkCsv
    \/ MergeMainBenchmarkMissing \/ MergeMainFileMissing \/ MergeMainNoRows
    \/ MergeMainReturns \/ MergeMainRaises

\* a ledger of up to MaxRows rows with one JSON file of one result to merge,
\* or an empty ledger with any files on the command line
InitLedger ==
    /\ \/ /\ \E n \in 0..MaxRows : benchmark_csv \in [1..n -> LedgerRows]
          /\ judge_csv \in {NoFile, File(JudgedRows(benchmark_csv))}
          /\ rejudge \in BOOLEAN
          /\ cli = [benchmark_exists |-> TRUE, json_files |-> <<JsonFile(TRUE, 1)>>]
       \/ /\ benchmark_csv = <<>>
          /\ judge_csv = NoFile
          /\ rejudge = FALSE
          /\ cli \in [benchmark_exists : BOOLEAN,
                      json_files : JsonFileInputs \ {<<>>}]
    /\ old_benchmark = <<>>
    /\ merge_args = [new_rows |-> <<>>, platform |-> "", mode |-> ""]
    /\ updated_count = 0
    /\ old_judge_csv = NoFile
    /\ update_args = NoUpdate
    /\ judge_args = NoJudgeArgs
    /\ results_csv = NoFile
    /\ old_results = NoFile
    /\ results = <<>>
    /\ row_num = 0
    /\ exit_status = -1
    /\ judge_scores = NoScores
    /\ queries = <<>>
    /\ start_from = 1
    /\ qno = 0
    /\ results_path = NoFile
    /\ merger = NoMerger
    /\ server_log = LogMissing
    /\ lineno = 1
    /\ current_tool = NoneText
    /\ current_args = ArgsNone
    /\ calls = <<>>
    /\ dataset = PLFS
    /\ routed_column = TRUE
    /\ row = NoRow
    /\ score_routing = -1
    /\ score_ordering = -1
    /\ pc = "ledger"

SpecLedger == InitLedger /\ [][NextLedger]_vars

-----------------------------------------------------------------------------
(* The ledger claims                                                       *)

\* the identity key of a ledger row: platform, mode, dataset and number
IdentityKey(r) == <<r.platform, r.mode, r.dataset, IntOf(r.no)>>

\* the identity key an update row addresses, the platform and the mode of the
\* merge standing in for the ones the row does not carry
AddressedKey(r) ==
    <<IF r.platform = Absent THEN merge_args.platform ELSE r.platform,
      IF r.mode = Absent THEN merge_args.mode ELSE r.mode,
      r.dataset, IntOf(r.no)>>

\* the keys of the update set
UpdateKeys ==
    {AddressedKey(merge_args.new_rows[j]) : j \in 1..Len(merge_args.new_rows)}

\* the last row of the update set that addresses key
LastUpdateFor(key) ==
    LET js == {j \in 1..Len(merge_args.new_rows) :
                  AddressedKey(merge_args.new_rows[j]) = key}
    IN  merge_args.new_rows[CHOOSE j \in js : \A k \in js : k <= j]

\* row shows every value the update row carries
ShowsValuesOf(r, update) ==
    \A f \in RowFields : update[f] # Absent => r[f] = update[f]

\* C10: merging an update set into a ledger of N rows leaves a ledger of N
\* rows in the original order: every row whose identity key is not in the
\* update set is identical to its pre-merge state, so an update row whose key
\* the ledger does not hold adds no row and changes no row, and once the merge
\* has returned the rows whose key is in the update set show the updated
\* values.
C10_MergeFrame ==
    pc \in {"merged", "merge_raised", "write_raised"} =>
        /\ Len(benchmark_csv) = Len(old_benchmark)
        /\ \A i \in 1..Len(old_benchmark) :
              /\ IdentityKey(benchmark_csv[i]) = IdentityKey(old_benchmark[i])
              /\ IF IdentityKey(old_benchmark[i]) \in UpdateKeys
                 THEN pc = "merged" =>
                        ShowsValuesOf(benchmark_csv[i],
                            LastUpdateFor(IdentityKey(old_benchmark[i])))
                 ELSE benchmark_csv[i] = old_benchmark[i]

\* the ledger rows the update set matched
MatchedRows == {i \in 1..Len(old_benchmark) : IdentityKey(old_benchmark[i]) \in UpdateKeys}

\* C11: a merge is a field-by-field partial overwrite: in a ledger row matched
\* by an incoming row (the last of the update set with that key), exactly the
\* fields the incoming row supplies take the incoming values and every other
\* field keeps its previous value; the count the merge reports is the number
\* of ledger rows that were matched.
C11_PartialOverwrite ==
    pc = "merged" =>
        /\ \A i \in MatchedRows :
              LET incoming == LastUpdateFor(IdentityKey(old_benchmark[i]))
              IN  \A f \in LedgerFields :
                      benchmark_csv[i][f] =
                          IF incoming[f] # Absent THEN incoming[f]
                          ELSE old_benchmark[i][f]
        /\ updated_count = Cardinality(MatchedRows)

\* C11 witness: a merge returned that matched a row, gave it the status the
\* incoming row supplies and kept the platform the incoming row does not supply.
C11_Witness ==
    /\ pc = "merged"
    /\ updated_count >= 1
    /\ \E i \in MatchedRows :
          LET incoming == LastUpdateFor(IdentityKey(old_benchmark[i]))
          IN  /\ incoming.platform = Absent
              /\ incoming.status \notin {Absent, old_benchmark[i].status}
              /\ benchmark_csv[i].status = incoming.status
              /\ benchmark_csv[i].platform = old_benchmark[i].platform

-----------------------------------------------------------------------------
(* judge.py: main, lines 258-410                                           *)

\* str(n), as csv writes an int
IntText(n) ==
    CASE n = -1 -> "-1"
      [] n = 0 -> "0"
      [] n = 1 -> "1"
      [] n = 2 -> "2"
      [] n = 3 -> "3"
      [] n = 4 -> "4"
      [] n = 5 -> "5"
      [] n = 6 -> "6"
      [] OTHER -> "7"

\* the error sentinel of lines 338-341
ERR == "ERR"

\* the value call_judge returns: {"error": ...} (line 255) or the dump of a
\* JudgeResult with the thought summary (lines 251-253)
JudgeError == [error |-> TRUE, filter_accuracy |-> 0, data_retrieval |-> 0,
               response_quality |-> 0, behavior_compliance |-> 0,
               judge_reasoning |-> ""]
JudgeScores(f, d, r, b) ==
    [error |-> FALSE, filter_accuracy |-> f, data_retrieval |-> d,
     response_quality |-> r, behavior_compliance |-> b,
     judge_reasoning |-> "thoughts"]

\* lines 358-360: sum(s for s in scores if isinstance(s, int) and s > 0); an
\* ERR is no int
Positive(n) == IF n > 0 THEN n ELSE 0
TotalScore(routing, ordering, judge_result) ==
    IF judge_result.error THEN Positive(routing) + Positive(ordering)
    ELSE Positive(routing) + Positive(ordering)
         + Positive(judge_result.filter_accuracy)
         + Positive(judge_result.data_retrieval)
         + Positive(judge_result.response_quality)
         + Positive(judge_result.behavior_compliance)

\* lines 385-400: out_row, every cell as the csv file holds it
OutRow(r, judge_result) ==
    [platform |-> r.platform, mode |-> r.mode, dataset |-> r.dataset, no |-> r.no,
     dataset_routed_to |-> r.dataset_routed_to, tool_trace |-> r.tool_trace,
     score_routing |-> IntText(AutoScoreRouting(r)),
     score_ordering |-> IntText(AutoScoreOrdering(r)),
     score_filter_accuracy |->
        IF judge_result.error THEN ERR
        ELSE IF judge_result.filter_accuracy = -1 THEN "N/A"
        ELSE IntText(judge_result.filter_accuracy),
     filter_notes |-> IF judge_result.error THEN "judge failed" ELSE "filter note",
     score_data_retrieval |->
        IF judge_result.error THEN ERR ELSE IntText(judge_result.data_retrieval),
     data_notes |-> IF judge_result.error THEN "" ELSE "data note",
     score_response_quality |->
        IF judge_result.error THEN ERR ELSE IntText(judge_result.response_quality),
     response_notes |-> IF judge_result.error THEN "" ELSE "response note",
     score_behavior |->
        IF judge_result.error THEN ERR ELSE IntText(judge_result.behavior_compliance),
     behavior_notes |-> IF judge_result.error THEN "" ELSE "behavior note",
     total_score |->
        IntText(TotalScore(AutoScoreRouting(r), AutoScoreOrdering(r), judge_result)),
     judge_reasoning |-> judge_result.judge_reasoning]

\* the inputs of the judge run
MaxJudgeRows == 3

\* the k-th row of the benchmark csv: the first follows the protocol and is
\* routed as expected, the second made no call, the others went straight to
\* 4_get_data on another dataset
BenchRow(k) ==
    [platform |-> "claude", mode |-> "single",
     dataset |-> IF k = 2 THEN CPI ELSE PLFS,
     no |-> IntText(k),
     dataset_routed_to |-> IF k = 1 THEN PLFS ELSE IF k = 2 THEN <<>> ELSE CPI,
     tool_trace |->
        IF k = 1 THEN SummarizeToolTrace(
                <<PlainCall(KNOW_TOOL), PlainCall(INDICATORS_TOOL),
                  PlainCall(METADATA_TOOL), PlainCall(DATA_TOOL)>>)
        ELSE IF k = 2 THEN <<>>
        ELSE SummarizeToolTrace(<<PlainCall(DATA_TOOL)>>)]
BenchRows(n) == [k \in 1..n |-> BenchRow(k)]

\* what the external judge answers for one row
JudgeOutcomes ==
    {JudgeError, JudgeScores(1, 1, 1, 1), JudgeScores(-1, 0, 0, 0),
     JudgeScores(-1, 1, 1, 1), JudgeScores(0, 1, 0, 1), JudgeScores(0, 0, 0, 0)}

\* the k-th row of a results file an earlier run left behind
PreviousRow(k) ==
    [OutRow(BenchRow(k), JudgeScores(0, 0, 0, 0)) EXCEPT !.judge_reasoning = "previous run"]
PreviousRows(m) == [k \in 1..m |-> PreviousRow(k)]

\* lines 271-275: the csv is missing
JudgeCsvMissing ==
    /\ pc = "judge"
    /\ ~judge_args.csv_exists
    /\ exit_status' = 1
    /\ pc' = "exited"
    /\ UNCHANGED <<scanVars, calls, rowVars, ledgerVars>>
    /\ UNCHANGED <<judge_args, results_csv, old_results, results, row_num, judge_scores, cli>>
    /\ UNCHANGED <<testerVars, merger>>

\* lines 278-281: GEMINI_API_KEY is not set
JudgeKeyMissing ==
    /\ pc = "judge"
    /\ judge_args.csv_exists
    /\ ~judge_args.api_key
    /\ exit_status' = 1
    /\ pc' = "exited"
    /\ UNCHANGED <<scanVars, calls, rowVars, ledgerVars>>
    /\ UNCHANGED <<judge_args, results_csv, old_results, results, row_num, judge_scores, cli>>
    /\ UNCHANGED <<testerVars, merger>>

\* line 301: rows[0] raises IndexError when the csv holds no row
JudgeNoRows ==
    /\ pc = "judge"
    /\ judge_args.csv_exists
    /\ judge_args.api_key
    /\ judge_args.rows = <<>>
    /\ exit_status' = 1
    /\ pc' = "exited"
    /\ UNCHANGED <<scanVars, calls, rowVars, ledgerVars>>
    /\ UNCHANGED <<judge_args, results_csv, old_results, results, row_num, judge_scores, cli>>
    /\ UNCHANGED <<testerVars, merger>>

\* lines 285-321: rows are read, the existing results are loaded when resuming
JudgeLoad ==
    /\ pc = "judge"
    /\ judge_args.csv_exists
    /\ judge_args.api_key
    /\ judge_args.rows # <<>>
    /\ results' = IF judge_args.start > 1 /\ results_csv.exists
                  THEN results_csv.rows ELSE <<>>
    /\ row_num' = 1
    /\ pc' = "judging"
    /\ UNCHANGED <<scanVars, calls, rowVars, ledgerVars>>
    /\ UNCHANGED <<judge_args, results_csv, old_results, exit_status, judge_scores, cli>>
    /\ UNCHANGED <<testerVars, merger>>

\* lines 323-326: a row before args.start
SkipRow ==
    /\ pc = "judging"
    /\ row_num <= Len(judge_args.rows)
    /\ row_num < judge_args.start
    /\ row_num' = row_num + 1
    /\ UNCHANGED <<scanVars, calls, pc, rowVars, ledgerVars>>
    /\ UNCHANGED <<judge_args, results_csv, old_results, results, exit_status, judge_scores, cli>>
    /\ UNCHANGED <<testerVars, merger>>

\* Mutant of JudgeOneRow: the file is rewritten only with the last row.
JudgeOneRow_FlushAtEnd ==
    /\ pc = "judging"
    /\ row_num <= Len(judge_args.rows)
    /\ row_num >= judge_args.start
    /\ \E judge_result \in JudgeOutcomes :
          results' = Append(results, OutRow(judge_args.rows[row_num], judge_result))
    /\ results_csv' = IF row_num = Len(judge_args.rows) THEN File(results')
                      ELSE results_csv
    /\ row_num' = row_num + 1
    /\ UNCHANGED <<scanVars, calls, pc, rowVars, ledgerVars>>
    /\ UNCHANGED <<judge_args, old_results, exit_status, judge_scores, cli>>
    /\ UNCHANGED <<testerVars, merger>>

\* Mutant of JudgeOneRow: a judge error ends the run with status 1 and the
\* row is not written.
JudgeOneRow_AbortOnError ==
    /\ pc = "judging"
    /\ row_num <= Len(judge_args.rows)
    /\ row_num >= judge_args.start
    /\ \E judge_result \in JudgeOutcomes :
          IF judge_result.error
          THEN /\ results' = results
               /\ results_csv' = results_csv
               /\ row_num' = row_num
               /\ pc' = "exited"
               /\ exit_status' = 1
          ELSE /\ results' = Append(results, OutRow(judge_args.rows[row_num], judge_result))
               /\ results_csv' = File(results')
               /\ row_num' = row_num + 1
               /\ UNCHANGED <<pc, exit_status>>
    /\ UNCHANGED <<scanVars, calls, rowVars, ledgerVars>>
    /\ UNCHANGED <<judge_args, old_results, judge_scores, cli>>
    /\ UNCHANGED <<testerVars, merger>>

\* lines 328-410: one row is scored, appended and the file rewritten
JudgeOneRow ==
    /\ pc = "judging"
    /\ row_num <= Len(judge_args.rows)
    /\ row_num >= judge_args.start
    /\ \E judge_result \in JudgeOutcomes :
          results' = Append(results, OutRow(judge_args.rows[row_num], judge_result))
    /\ results_csv' = File(results')
    /\ row_num' = row_num + 1
    /\ UNCHANGED <<scanVars, calls, pc, rowVars, ledgerVars>>
    /\ UNCHANGED <<judge_args, old_results, exit_status, judge_scores, cli>>
    /\ UNCHANGED <<testerVars, merger>>

\* lines 412-470: the loop is over, the summary is printed, main returns
JudgeDone ==
    /\ pc = "judging"
    /\ row_num > Len(judge_args.rows)
    /\ exit_status' = 0
    /\ pc' = "exited"
    /\ UNCHANGED <<scanVars, calls, rowVars, ledgerVars>>
    /\ UNCHANGED <<judge_args, results_csv, old_results, results, row_num, judge_scores, cli>>
    /\ UNCHANGED <<testerVars, merger>>

\* the process dies while lines 404-407 rewrite the file: open(..., "w") has
\* emptied it and writerows has put back the header and fewer rows than
\* results holds
JudgeCrashInWrite ==
    /\ pc = "judging"
    /\ row_num <= Len(judge_args.rows)
    /\ row_num >= judge_args.start
    /\ \E judge_result \in JudgeOutcomes :
          results' = Append(results, OutRow(judge_args.rows[row_num], judge_result))
    /\ \E k \in 0..Len(results) : results_csv' = File(SubSeq(results', 1, k))
    /\ pc' = "crashed"
    /\ UNCHANGED <<scanVars, calls, rowVars, ledgerVars>>
    /\ UNCHANGED <<judge_args, old_results, row_num, exit_status, judge_scores, cli>>
    /\ UNCHANGED <<testerVars, merger>>

\* the process dies anywhere else in the loop: the file is as the last rewrite
\* left it
JudgeCrash ==
    /\ pc = "judging"
    /\ pc' = "crashed"
    /\ UNCHANGED <<scanVars, calls, rowVars, ledgerVars, judgeVars>>
    /\ UNCHANGED <<testerVars, merger>>

\* rerun_failed.py, line 176: what the judge answers for the single query,
\* {"error": ...} or the four scores lines 193-205 read from it
SingleQueryError == [error |-> TRUE, score_filter_accuracy |-> 0,
                     score_data_retrieval |-> 0, score_response_quality |-> 0,
                     score_behavior |-> 0]
SingleQueryResult(f, d, r, b) ==
    [error |-> FALSE, score_filter_accuracy |-> f, score_data_retrieval |-> d,
     score_response_quality |-> r, score_behavior |-> b]
SingleQueryOutcomes ==
    {SingleQueryError, SingleQueryResult(1, 1, 1, 1), SingleQueryResult(-1, 1, 1, 1),
     SingleQueryResult(-1, 0, 0, 0), SingleQueryResult(0, 1, 0, 1)}

\* rerun_failed.py, lines 192-196: every int the judge gave is added as it is
SingleQueryTotal(routing, ordering, judge_result) ==
    routing + ordering + judge_result.score_filter_accuracy
    + judge_result.score_data_retrieval + judge_result.score_response_quality
    + judge_result.score_behavior

\* f"{total}/6"
OutOfSix(total) == ToString(total) \o "/6"

\* rerun_failed.py, lines 178-209: the dict judge_single_query returns
SingleQueryScores(r, judge_result) ==
    [returned |-> TRUE,
     score_routing |-> IntText(AutoScoreRouting(r)),
     score_ordering |-> IntText(AutoScoreOrdering(r)),
     score_filter_accuracy |->
        IF judge_result.error THEN ERR
        ELSE IntText(judge_result.score_filter_accuracy),
     score_data_retrieval |->
        IF judge_result.error THEN ERR
        ELSE IntText(judge_result.score_data_retrieval),
     score_response_quality |->
        IF judge_result.error THEN ERR
        ELSE IntText(judge_result.score_response_quality),
     score_behavior |->
        IF judge_result.error THEN ERR ELSE IntText(judge_result.score_behavior),
     total_score |->
        IF judge_result.error
        THEN OutOfSix(AutoScoreRouting(r) + AutoScoreOrdering(r))
        ELSE OutOfSix(SingleQueryTotal(AutoScoreRouting(r), AutoScoreOrdering(r),
                                       judge_result))]

\* rerun_failed.py, lines 155-209, called from main at line 285: one row of
\* the benchmark csv is judged again and its scores are returned
JudgeSingleQuery ==
    /\ pc = "judge"
    /\ judge_args.csv_exists
    /\ results_csv.exists
    /\ judge_args.api_key
    /\ \E k \in 1..Len(judge_args.rows) : \E judge_result \in SingleQueryOutcomes :
          judge_scores' = SingleQueryScores(judge_args.rows[k], judge_result)
    /\ pc' = "rejudged"
    /\ UNCHANGED <<scanVars, calls, rowVars, ledgerVars>>
    /\ UNCHANGED <<judge_args, results_csv, old_results, results, row_num, exit_status, cli>>
    /\ UNCHANGED <<testerVars, merger>>

\* rerun_failed.py, lines 163-166: no credential, {} is returned
JudgeSingleQueryNoKey ==
    /\ pc = "judge"
    /\ judge_args.csv_exists
    /\ results_csv.exists
    /\ ~judge_args.api_key
    /\ Len(judge_args.rows) > 0
    /\ judge_scores' = NoScores
    /\ pc' = "rejudge_skipped"
    /\ UNCHANGED <<scanVars, calls, rowVars, ledgerVars>>
    /\ UNCHANGED <<judge_args, results_csv, old_results, results, row_num, exit_status, cli>>
    /\ UNCHANGED <<testerVars, merger>>

\* parse_results.py, main, lines 229-305

\* lines 242-244: no JSON file, main returns
ParseMainNoFiles ==
    /\ pc = "parse_main"
    /\ cli.json_files = <<>>
    /\ exit_status' = 0
    /\ pc' = "parse_exited"
    /\ UNCHANGED <<scanVars, calls, rowVars, ledgerVars>>
    /\ UNCHANGED <<judge_args, results_csv, old_results, results, row_num, judge_scores, cli>>
    /\ UNCHANGED <<testerVars, merger>>

\* lines 250-252: parse_json_file raises on a file that is not there, and
\* the interpreter ends with status 1
ParseMainFileMissing ==
    /\ pc = "parse_main"
    /\ cli.json_files # <<>>
    /\ ~AllFilesOpen(cli.json_files)
    /\ exit_status' = 1
    /\ pc' = "parse_exited"
    /\ UNCHANGED <<scanVars, calls, rowVars, ledgerVars>>
    /\ UNCHANGED <<judge_args, results_csv, old_results, results, row_num, judge_scores, cli>>
    /\ UNCHANGED <<testerVars, merger>>

\* lines 246-305: every file is parsed, benchmark_results.csv is written with
\* one row for each result, the summary is printed and main returns
ParseMain ==
    /\ pc = "parse_main"
    /\ cli.json_files # <<>>
    /\ AllFilesOpen(cli.json_files)
    /\ judge_args' = [judge_args EXCEPT !.csv_exists = TRUE,
                                        !.rows = BenchRows(CountRows(cli.json_files))]
    /\ exit_status' = 0
    /\ pc' = "parse_exited"
    /\ UNCHANGED <<scanVars, calls, rowVars, ledgerVars>>
    /\ UNCHANGED <<results_csv, old_results, results, row_num, judge_scores, cli>>
    /\ UNCHANGED <<testerVars, merger>>

NextJudge ==
    \/ JudgeCsvMissing \/ JudgeKeyMissing \/ JudgeNoRows \/ JudgeLoad
    \/ SkipRow \/ JudgeOneRow \/ JudgeDone \/ JudgeCrashInWrite \/ JudgeCrash
    \/ JudgeSingleQuery \/ JudgeSingleQueryNoKey
    \/ ParseMainNoFiles \/ ParseMainFileMissing \/ ParseMain

\* a judge run over a benchmark csv of up to MaxJudgeRows rows, or a
\* parse_results run over up to MaxJsonFiles JSON files
InitJudge ==
    /\ \/ /\ \E n \in 0..MaxJudgeRows : \E start \in 1..MaxJudgeRows :
             \E csv_exists \in BOOLEAN : \E api_key \in BOOLEAN :
                judge_args = [csv_exists |-> csv_exists, api_key |-> api_key,
                              start |-> start, rows |-> BenchRows(n)]
          /\ \/ results_csv = NoFile
             \/ \E m \in 0..MaxJudgeRows : results_csv = File(PreviousRows(m))
          /\ cli = NoCli
          /\ pc = "judge"
       \/ /\ judge_args = NoJudgeArgs
          /\ results_csv = NoFile
          /\ cli \in [benchmark_exists : {TRUE}, json_files : JsonFileInputs]
          /\ pc = "parse_main"
    /\ old_results = results_csv
    /\ results = <<>>
    /\ row_num = 0
    /\ exit_status = -1
    /\ judge_scores = NoScores
    /\ queries = <<>>
    /\ start_from = 1
    /\ qno = 0
    /\ results_path = NoFile
    /\ merger = NoMerger
    /\ benchmark_csv = <<>>
    /\ old_benchmark = <<>>
    /\ merge_args = [new_rows |-> <<>>, platform |-> "", mode |-> ""]
    /\ updated_count = 0
    /\ judge_csv = NoFile
    /\ old_judge_csv = NoFile
    /\ rejudge = FALSE
    /\ update_args = NoUpdate
    /\ server_log = LogMissing
    /\ lineno = 1
    /\ current_tool = NoneText
    /\ current_args = ArgsNone
    /\ calls = <<>>
    /\ dataset = PLFS
    /\ routed_column = TRUE
    /\ row = NoRow
    /\ score_routing = -1
    /\ score_ordering = -1

SpecJudge == InitJudge /\ [][NextJudge]_vars

-----------------------------------------------------------------------------
(* The judge run claims                                                    *)

\* the identity key of a row of the results ledger
ResultKey(r) == <<r.platform, r.mode, r.dataset, r.no>>

\* no two rows of the ledger share an identity key
UniqueKeys(rows) ==
    \A i, j \in 1..Len(rows) : i # j => ResultKey(rows[i]) # ResultKey(rows[j])

\* every key of the ledger before is a key of the ledger after
NoKeyDropped(before, after) ==
    \A i \in 1..Len(before) :
        \E j \in 1..Len(after) : ResultKey(after[j]) = ResultKey(before[i])

\* the judge run came to its end
JudgeRunEnded == pc = "exited" /\ exit_status = 0

\* C12: identity keys stay unique: once a judge run, fresh or resumed with
\* --start N, has ended over a results ledger in which no two rows share
\* (platform, mode, dataset, no), no two rows of the persisted ledger share an
\* identity key, and a resumed run has dropped no row the ledger held.
C12_KeysStayUnique ==
    (JudgeRunEnded /\ UniqueKeys(old_results.rows)) =>
        /\ UniqueKeys(results_csv.rows)
        /\ judge_args.start > 1 => NoKeyDropped(old_results.rows, results_csv.rows)

\* row r of the ledger is the out_row this run made of input row k
NewlyJudged(r, k) ==
    /\ ResultKey(r) = ResultKey(judge_args.rows[k])
    /\ r.judge_reasoning # "previous run"

\* C13: a judge run resumed at row N > 1 over an existing results ledger that
\* holds rows 1..N-1 leaves those rows untouched and continues from N: the
\* ledger it ends with is the previous rows 1..N-1 followed by exactly the
\* newly judged input rows N..end, one row per input row.
C13_ResumeContinuesFromN ==
    (/\ JudgeRunEnded
     /\ judge_args.start > 1
     /\ judge_args.start <= Len(judge_args.rows)
     /\ old_results.exists
     /\ Len(old_results.rows) >= judge_args.start - 1) =>
        /\ Len(results_csv.rows) = Len(judge_args.rows)
        /\ \A k \in 1..(judge_args.start - 1) :
              results_csv.rows[k] = old_results.rows[k]
        /\ \A k \in judge_args.start..Len(judge_args.rows) :
              NewlyJudged(results_csv.rows[k], k)

\* the persisted ledger holds exactly input rows 1..k, once each, in input order
HoldsRowsUpTo(k) ==
    /\ results_csv.exists
    /\ Len(results_csv.rows) = k
    /\ \A j \in 1..k : NewlyJudged(results_csv.rows[j], j)

\* C14: in a fresh full judge run the ledger is flushed after every row: once
\* the k-th input row has been processed and before row k+1 is started, the
\* persisted ledger holds exactly input rows 1..k, each once and in input
\* order; when the run has ended every input row has been written exactly once.
C14_FlushedAfterEveryRow ==
    judge_args.start = 1 =>
        /\ (pc = "judging" /\ row_num > 1) => HoldsRowsUpTo(row_num - 1)
        /\ JudgeRunEnded => HoldsRowsUpTo(Len(judge_args.rows))

\* C14 witness: a fresh run over a results file of an earlier run has processed
\* two rows and the third is not started.
C14_Witness ==
    /\ judge_args.start = 1
    /\ pc = "judging"
    /\ row_num = 3
    /\ Len(judge_args.rows) >= 3
    /\ Len(old_results.rows) >= 3
    /\ HoldsRowsUpTo(2)

\* the input rows whose loop iteration was over when the process died
CompletedRows == {k \in 1..(row_num - 1) : k >= judge_args.start}

\* C15: the persisted ledger is crash-safe at per-query granularity: when the
\* writer process has died at any point of a judge run, in the middle of
\* rewriting the file included, the ledger on disk still holds the row of
\* every input row whose processing was over before the crash.
C15_CrashSafe ==
    pc = "crashed" =>
        \A k \in CompletedRows :
            \E j \in 1..Len(results_csv.rows) : NewlyJudged(results_csv.rows[j], k)

\* the ten cells the judge produced
JudgeProduced ==
    {"score_filter_accuracy", "score_data_retrieval", "score_response_quality",
     "score_behavior", "filter_notes", "data_notes", "response_notes",
     "behavior_notes", "total_score", "judge_reasoning"}

\* C16: merge_into_judge with rejudge enabled sets to empty exactly the ten
\* judge-produced cells of the rows whose identity key is in the updated set;
\* every other cell of those rows, every cell of every other row, the row
\* count and the row order are unchanged; with rejudge disabled no cell of any
\* row changes.
C16_RejudgeClearsJudgeFields ==
    (pc = "judge_merged" /\ old_judge_csv.exists) =>
        /\ judge_csv.exists
        /\ Len(judge_csv.rows) = Len(old_judge_csv.rows)
        /\ \A i \in 1..Len(old_judge_csv.rows) :
              \A f \in DOMAIN old_judge_csv.rows[i] :
                  judge_csv.rows[i][f] =
                      IF /\ rejudge
                         /\ IdentityKey(old_judge_csv.rows[i]) \in UpdateKeys
                         /\ f \in JudgeProduced
                      THEN ""
                      ELSE old_judge_csv.rows[i][f]

\* C16 witness: with rejudge enabled one row of the judge ledger was cleared
\* and another was left as it was.
C16_Witness ==
    /\ pc = "judge_merged"
    /\ rejudge
    /\ old_judge_csv.exists
    /\ \E i, j \in 1..Len(old_judge_csv.rows) :
          /\ IdentityKey(old_judge_csv.rows[i]) \in UpdateKeys
          /\ judge_csv.rows[i].total_score = ""
          /\ judge_csv.rows[i].score_routing = "1"
          /\ IdentityKey(old_judge_csv.rows[j]) \notin UpdateKeys
          /\ judge_csv.rows[j] = old_judge_csv.rows[j]

\* the rows of the judge ledger that update_benchmark_csv changed
ChangedRows ==
    {i \in 1..Len(old_judge_csv.rows) : judge_csv.rows[i] # old_judge_csv.rows[i]}

\* C17: a targeted re-run updates exactly the row named by its key:
\* update_benchmark_csv changes only the ledger row with that identity, every
\* other row, a row of another platform with the same mode, dataset and query
\* number included, is identical, and when no row matches the key the file is
\* not rewritten.
C17_UpdatesOnlyTheKeyedRow ==
    pc = "updated" =>
        /\ Len(judge_csv.rows) = Len(old_judge_csv.rows)
        /\ \A i \in ChangedRows :
              /\ old_judge_csv.rows[i].mode = update_args.mode
              /\ old_judge_csv.rows[i].dataset = update_args.dataset
              /\ IntOf(old_judge_csv.rows[i].no) = update_args.query_no
        /\ \A i, j \in ChangedRows :
              IdentityKey(old_judge_csv.rows[i]) = IdentityKey(old_judge_csv.rows[j])
        /\ ~update_args.updated => judge_csv = old_judge_csv

\* the number of the six score cells of a row that hold a 1
IsOne(cell) == IF cell = "1" THEN 1 ELSE 0
OnesOf(r) ==
    IsOne(r.score_routing) + IsOne(r.score_ordering)
    + IsOne(r.score_filter_accuracy) + IsOne(r.score_data_retrieval)
    + IsOne(r.score_response_quality) + IsOne(r.score_behavior)

\* every row of the batch judge run holds the count of its ones as its total
BatchTotalCountsOnes ==
    \A i \in 1..Len(results) : results[i].total_score = IntText(OnesOf(results[i]))

\* C18: a row's total is the number of its six dimensions scored 1, a -1 or
\* an ERR adding nothing, so it lies in 0..6 and is never below routing plus
\* ordering; this holds of every row the batch judge run writes and of the
\* scores the single-query re-judge returns.
C18_TotalCountsOnes ==
    /\ BatchTotalCountsOnes
    /\ judge_scores.returned
          => /\ judge_scores.total_score = OutOfSix(OnesOf(judge_scores))
             /\ \E n \in 0..6 : judge_scores.total_score = OutOfSix(n)

\* the row was written by the error branch of lines 338-347
JudgeFailed(r) == r.filter_notes = "judge failed"

\* the rows the run loaded from an existing ledger before its loop
LoadedRows ==
    IF judge_args.start > 1 /\ old_results.exists THEN Len(old_results.rows) ELSE 0

\* C19: a failure of the judge for one row never aborts the batch: the row
\* holds ERR in each of the four judge scores and the routing and ordering
\* scores computed from its input row, it is appended and is in the file as
\* soon as the step is over, and the run goes on: once the loop has begun the
\* run ends only with status 0 and one row for every input row from the start.
C19_JudgeFailureKeepsGoing ==
    /\ \A i \in 1..Len(results) :
          JudgeFailed(results[i]) =>
             /\ results[i].score_filter_accuracy = ERR
             /\ results[i].score_data_retrieval = ERR
             /\ results[i].score_response_quality = ERR
             /\ results[i].score_behavior = ERR
             /\ \E k \in judge_args.start..Len(judge_args.rows) :
                   /\ i = LoadedRows + k - judge_args.start + 1
                   /\ ResultKey(results[i]) = ResultKey(judge_args.rows[k])
                   /\ results[i].score_routing
                         = IntText(AutoScoreRouting(judge_args.rows[k]))
                   /\ results[i].score_ordering
                         = IntText(AutoScoreOrdering(judge_args.rows[k]))
             /\ pc \in {"judging", "exited"} =>
                   /\ results_csv.exists
                   /\ i <= Len(results_csv.rows)
                   /\ results_csv.rows[i] = results[i]
    /\ (pc = "exited" /\ row_num > 0) =>
          /\ exit_status = 0
          /\ Len(results)
                = LoadedRows + Cardinality(judge_args.start..Len(judge_args.rows))

\* a row whose judge failed is in the file and a later row was judged after it
C19_Witness ==
    /\ pc = "exited"
    /\ exit_status = 0
    /\ \E i \in 1..Len(results) : \E j \in 1..Len(results) :
          /\ i < j
          /\ JudgeFailed(results[i])
          /\ ~JudgeFailed(results[j])
          /\ results[i].score_routing = "1"
          /\ results_csv.rows[i] = results[i]

\* the judge run, the parse and the merge each lack an input: a required file
\* is missing, the credential is missing or the input set is empty
JudgeLacksInput ==
    ~judge_args.csv_exists \/ ~judge_args.api_key \/ judge_args.rows = <<>>
ParseLacksInput == cli.json_files = <<>> \/ ~AllFilesOpen(cli.json_files)
MergeLacksInput ==
    \/ ~cli.benchmark_exists
    \/ ~AllFilesOpen(cli.json_files)
    \/ CountRows(cli.json_files) = 0

\* each entry point alone
JudgeExitStatus == pc = "exited" => (exit_status # 0 <=> JudgeLacksInput)
ParseExitStatus == pc = "parse_exited" => (exit_status # 0 <=> ParseLacksInput)
MergeExitStatus == pc = "merge_exited" => (exit_status # 0 <=> MergeLacksInput)

\* C20: every entry point (judge, merge_results, parse_results) ends with a
\* non-zero status when a required input file is missing, the credential is
\* missing or the input set is empty, and with status 0 otherwise, rows that
\* ended in judge errors included.
C20_ExitStatus ==
    /\ JudgeExitStatus
    /\ ParseExitStatus
    /\ MergeExitStatus

-----------------------------------------------------------------------------
(* The parse-fault, round-trip and routing-verdict claims                  *)

\* a call whose Args line was no mapping: the raw text was kept
KeepsRawArgs(c) == c.args.type = "str"

\* C21: a call whose Args line could not be parsed into a mapping is emitted
\* with the raw argument text, and building the row from the calls
\* (extract_get_data_args, summarize_tool_trace, detect_dataset_used) ends
\* without raising.
C21_ParseFaultsNotFatal ==
    (\E k \in 1..Len(calls) : KeepsRawArgs(calls[k])) => pc # "raised"

\* the positions in cs of the calls of one tool, and the j-th of them
PositionsOf(cs, tool) == {k \in 1..Len(cs) : cs[k].tool = tool}
NthOf(cs, tool, j) ==
    cs[CHOOSE k \in PositionsOf(cs, tool) :
          Cardinality({m \in PositionsOf(cs, tool) : m <= k}) = j]

\* what the judge reads back from the all_tool_calls column of the row
ReadBack == AllCallsRead(row.all_tool_calls)

-----------------------------------------------------------------------------
(* The idempotence of the ledger merge                                     *)

\* the update set without the rows that a later row of the same key replaces
LastOfEachKey(rows, platform, mode) ==
    SelectSeq([i \in 1..Len(rows) |-> [at |-> i, r |-> rows[i]]],
              LAMBDA x : \A j \in (x.at + 1)..Len(rows) :
                            NewKey(rows[j], platform, mode) # NewKey(x.r, platform, mode))
RowsOf(xs) == [i \in 1..Len(xs) |-> xs[i].r]

\* C23: merging the same update set a second time leaves the ledger exactly
\* as the first merge left it, and a merge whose update set holds several
\* rows of one identity key leaves the ledger as the merge of only the last
\* row of each key does.
C23_MergeIdempotent ==
    /\ pc = "merged_again" => benchmark_csv = old_benchmark
    /\ pc \in {"merged", "merge_raised", "write_raised"} =>
          benchmark_csv
             = MergeOutcome(old_benchmark,
                            RowsOf(LastOfEachKey(merge_args.new_rows,
                                                 merge_args.platform, merge_args.mode)),
                            merge_args.platform, merge_args.mode)

\* a merge that changed a row was applied again
C23_Witness ==
    /\ pc = "merged_again"
    /\ updated_count > 0
    /\ Len(merge_args.new_rows) = 2
    /\ NewKey(merge_args.new_rows[1], merge_args.platform, merge_args.mode)
          = NewKey(merge_args.new_rows[2], merge_args.platform, merge_args.mode)
    /\ merge_args.new_rows[1] # merge_args.new_rows[2]
    /\ \E i \in 1..Len(benchmark_csv) : benchmark_csv[i].status = "RERUN"

-----------------------------------------------------------------------------
(* The evidence columns of the row                                         *)

\* the 3_get_metadata calls of the query that succeeded
SuccessfulMetadata ==
    {k \in 1..Len(calls) : calls[k].tool = METADATA_TOOL /\ calls[k].has_data}

\* C24: the step-3 metadata evidence of a query is the output of its last
\* successful 3_get_metadata call, also when a later metadata call errored
\* or timed out.
C24_LastSuccessfulMetadata ==
    (pc \in {"row", "scored"} /\ SuccessfulMetadata # {}) =>
        row.metadata_output
           = calls[CHOOSE k \in SuccessfulMetadata :
                      \A j \in SuccessfulMetadata : j <= k].output

-----------------------------------------------------------------------------
(* testers/claude_tester.py and testers/chatgpt_tester.py: run_queries.    *)
(* The two loops differ in what they capture of a query, not in when they  *)
(* record and save it; the lines named are those of claude_tester.py.      *)

MaxQueries == 3

\* how a query ends: send_query raises, wait_for_response gives True or False
Endings == {"SEND_ERROR", "PASS", "TIMEOUT"}

\* lines 295-304 and 333-342: the result of query k
ResultOf(k, status) == [no |-> k, status |-> status]

\* lines 240-242: the csv holds no query
TesterNoQueries ==
    /\ pc = "tester"
    /\ queries = <<>>
    /\ pc' = "tester_done"
    /\ UNCHANGED <<scanVars, calls, rowVars, ledgerVars, judgeVars, testerVars>>
    /\ UNCHANGED merger

\* lines 244-276: the browser is started, nothing is written yet
TesterStart ==
    /\ pc = "tester"
    /\ queries # <<>>
    /\ qno' = 1
    /\ pc' = "querying"
    /\ UNCHANGED <<scanVars, calls, rowVars, ledgerVars, judgeVars>>
    /\ UNCHANGED <<queries, start_from, results_path, merger>>

\* lines 280-281: a query before start_from
TesterSkip ==
    /\ pc = "querying"
    /\ qno <= Len(queries)
    /\ qno < start_from
    /\ qno' = qno + 1
    /\ UNCHANGED <<scanVars, calls, pc, rowVars, ledgerVars, judgeVars>>
    /\ UNCHANGED <<queries, start_from, results_path, merger>>

\* lines 291-305: send_query raises, the result is appended and the loop
\* continues
TesterSendError ==
    /\ pc = "querying"
    /\ qno <= Len(queries)
    /\ qno >= start_from
    /\ queries[qno] = "SEND_ERROR"
    /\ results' = Append(results, ResultOf(qno, "SEND_ERROR"))
    /\ qno' = qno + 1
    /\ UNCHANGED <<scanVars, calls, pc, rowVars, ledgerVars>>
    /\ UNCHANGED <<judge_args, results_csv, old_results, row_num, exit_status,
                   judge_scores, cli>>
    /\ UNCHANGED <<queries, start_from, results_path, merger>>

\* lines 307-352: the response is awaited and captured, the result is
\* appended with PASS or TIMEOUT and the file is written with every result
TesterAnswer ==
    /\ pc = "querying"
    /\ qno <= Len(queries)
    /\ qno >= start_from
    /\ queries[qno] \in {"PASS", "TIMEOUT"}
    /\ results' = Append(results, ResultOf(qno, queries[qno]))
    /\ results_path' = File(results')
    /\ qno' = qno + 1
    /\ UNCHANGED <<scanVars, calls, pc, rowVars, ledgerVars>>
    /\ UNCHANGED <<judge_args, results_csv, old_results, row_num, exit_status,
                   judge_scores, cli>>
    /\ UNCHANGED <<queries, start_from, merger>>

\* lines 359-366: the loop is over, the summary is printed
TesterDone ==
    /\ pc = "querying"
    /\ qno > Len(queries)
    /\ pc' = "tester_done"
    /\ UNCHANGED <<scanVars, calls, rowVars, ledgerVars, judgeVars, testerVars>>
    /\ UNCHANGED merger

NextTester ==
    \/ TesterNoQueries \/ TesterStart \/ TesterSkip
    \/ TesterSendError \/ TesterAnswer \/ TesterDone

InitTester ==
    /\ \E n \in 0..MaxQueries : queries \in [1..n -> Endings]
    /\ start_from \in 1..MaxQueries
    /\ qno = 0
    /\ results_path = NoFile
    /\ merger = NoMerger
    /\ results = <<>>
    /\ pc = "tester"
    /\ judge_args = NoJudgeArgs
    /\ results_csv = NoFile
    /\ old_results = NoFile
    /\ row_num = 0
    /\ exit_status = -1
    /\ judge_scores = NoScores
    /\ cli = NoCli
    /\ benchmark_csv = <<>>
    /\ old_benchmark = <<>>
    /\ merge_args = [new_rows |-> <<>>, platform |-> "", mode |-> ""]
    /\ updated_count = 0
    /\ judge_csv = NoFile
    /\ old_judge_csv = NoFile
    /\ rejudge = FALSE
    /\ update_args = NoUpdate
    /\ server_log = LogMissing
    /\ lineno = 1
    /\ current_tool = NoneText
    /\ current_args = ArgsNone
    /\ calls = <<>>
    /\ dataset = PLFS
    /\ routed_column = TRUE
    /\ row = NoRow
    /\ score_routing = -1
    /\ score_ordering = -1

SpecTester == InitTester /\ [][NextTester]_vars

\* the queries that have ended: those from start_from up to the one before
\* the position of the loop
EndedQueries == {k \in 1..Len(queries) : k >= start_from /\ k < qno}

\* the results file holds a row for query k with the status it ended with
Persisted(k) ==
    /\ results_path.exists
    /\ \E i \in 1..Len(results_path.rows) :
          results_path.rows[i] = ResultOf(k, queries[k])

\* every query that ended with a response or a response timeout is in the file
AnsweredPersisted ==
    pc \in {"querying", "tester_done"} =>
        \A k \in EndedQueries : queries[k] # "SEND_ERROR" => Persisted(k)

\* C25: every attempted query is recorded and persisted: when a query has
\* ended, with a response, a response timeout or a send failure, its result
\* is in the results file before the next query starts and after the run
\* has ended, and the run goes on with the next query.
C25_EveryQueryPersisted ==
    /\ pc \in {"querying", "tester_done"} => \A k \in EndedQueries : Persisted(k)
    /\ pc = "tester_done" /\ queries # <<>> => qno = Len(queries) + 1

\* ---------------------------------------------------------------------
\* Two writers on one judge ledger: a judge run (judge.py main) and a
\* merge_into_judge (merge_results.py) that is handed the same file. Each
\* reads the whole table, changes its own copy and rewrites the file.

\* merge_results main lines 146-150: the queries of the re-run, out of the
\* first two of the benchmark
MergerQueries == SUBSET {ResultKey(BenchRow(k)) : k \in 1..2} \ {{}}

\* merge_into_judge lines 87-98 over the rows a judge run wrote: existing_rows
\* after the loop
MergerRows(existing, updated_queries, rj) ==
    [i \in 1..Len(existing) |->
        IF ResultKey(existing[i]) \in updated_queries /\ rj
        THEN ClearScores(existing[i])
        ELSE existing[i]]

\* merge_into_judge lines 73-75: there is no file, the function returns
MergerNoFile ==
    /\ merger.pc = "start"
    /\ ~results_csv.exists
    /\ merger' = [merger EXCEPT !.pc = "returned"]
    /\ UNCHANGED <<scanVars, calls, pc, rowVars, ledgerVars, judgeVars, testerVars>>

\* merge_into_judge lines 77-85: the whole table is read into existing_rows
MergerRead ==
    /\ merger.pc = "start"
    /\ results_csv.exists
    /\ merger' = [merger EXCEPT !.pc = "read", !.existing_rows = results_csv.rows]
    /\ UNCHANGED <<scanVars, calls, pc, rowVars, ledgerVars, judgeVars, testerVars>>

\* Mutant of MergerWrite: the rows are written back as they were read.
MergerWrite_StaleRows ==
    /\ merger.pc = "read"
    /\ results_csv' = File(merger.existing_rows)
    /\ merger' = [merger EXCEPT !.pc = "written"]
    /\ UNCHANGED <<scanVars, calls, pc, rowVars, ledgerVars, testerVars>>
    /\ UNCHANGED <<judge_args, old_results, results, row_num, exit_status,
                   judge_scores, cli>>

\* merge_into_judge lines 87-104: the rows of the re-run queries are cleared
\* in existing_rows and the file is rewritten from existing_rows
MergerWrite ==
    /\ merger.pc = "read"
    /\ results_csv' = File(MergerRows(merger.existing_rows, merger.updated_queries,
                                      rejudge))
    /\ merger' = [merger EXCEPT !.pc = "written"]
    /\ UNCHANGED <<scanVars, calls, pc, rowVars, ledgerVars, testerVars>>
    /\ UNCHANGED <<judge_args, old_results, results, row_num, exit_status,
                   judge_scores, cli>>

\* the rows of the judge run and of the file it finds, with a second writer
MaxWriterRows == 2

NextWriters ==
    \/ JudgeLoad \/ SkipRow \/ JudgeOneRow \/ JudgeDone
    \/ MergerNoFile \/ MergerRead \/ MergerWrite

\* a judge run with its input and credential in place, and possibly a
\* merge_into_judge on the file the run writes
InitWriters ==
    /\ \E n \in 1..MaxWriterRows : \E start \in 1..MaxWriterRows :
          judge_args = [csv_exists |-> TRUE, api_key |-> TRUE,
                        start |-> start, rows |-> BenchRows(n)]
    /\ \/ results_csv = NoFile
       \/ \E m \in 0..MaxWriterRows : results_csv = File(PreviousRows(m))
    /\ \/ merger = NoMerger
       \/ \E q \in MergerQueries :
             merger = [pc |-> "start", existing_rows |-> <<>>, updated_queries |-> q]
    /\ rejudge \in BOOLEAN
    /\ cli = NoCli
    /\ pc = "judge"
    /\ old_results = results_csv
    /\ results = <<>>
    /\ row_num = 0
    /\ exit_status = -1
    /\ judge_scores = NoScores
    /\ queries = <<>>
    /\ start_from = 1
    /\ qno = 0
    /\ results_path = NoFile
    /\ benchmark_csv = <<>>
    /\ old_benchmark = <<>>
    /\ merge_args = [new_rows |-> <<>>, platform |-> "", mode |-> ""]
    /\ updated_count = 0
    /\ judge_csv = NoFile
    /\ old_judge_csv = NoFile
    /\ update_args = NoUpdate
    /\ server_log = LogMissing
    /\ lineno = 1
    /\ current_tool = NoneText
    /\ current_args = ArgsNone
    /\ calls = <<>>
    /\ dataset = PLFS
    /\ routed_column = TRUE
    /\ row = NoRow
    /\ score_routing = -1
    /\ score_ordering = -1

SpecWriters == InitWriters /\ [][NextWriters]_vars

\* every row the judge run holds in results has its query in the file
JudgeUpdatesKept ==
    \A i \in 1..Len(results) :
        \E j \in 1..Len(results_csv.rows) :
            ResultKey(results_csv.rows[j]) = ResultKey(results[i])

\* no row that the finished merge cleared stands in the file as the merge
\* read it
MergerUpdateKept ==
    (merger.pc = "written" /\ rejudge) =>
        \A i \in 1..Len(merger.existing_rows) :
            (/\ ResultKey(merger.existing_rows[i]) \in merger.updated_queries
             /\ ClearScores(merger.existing_rows[i]) # merger.existing_rows[i])
            => \A j \in 1..Len(results_csv.rows) :
                  results_csv.rows[j] # merger.existing_rows[i]

\* only one of the two processes has written the file
SingleWriter == merger.pc \in {"none", "start", "returned", "read"} \/ pc = "judge"

\* C26: with a single writer no completed update is lost: while only the
\* judge run or only the merge has written the file, every row the judge run
\* completed and every clearing the merge completed is in the file. (With
\* both writing, C26_LostUpdate is reached.)
C26_SingleWriterKeepsUpdates ==
    SingleWriter => (JudgeUpdatesKept /\ MergerUpdateKept)

\* both processes ended, the merge wrote between two writes of the judge run
\* or the judge run between the read and the write of the merge, and a row the
\* judge run completed is not in the file
C26_LostUpdate ==
    /\ pc = "exited"
    /\ merger.pc = "written"
    /\ ~JudgeUpdatesKept

\* the outcome of a call when its error flag is looked at first
ErrorFirst(c) ==
    IF c.is_error THEN "ERROR_OR_TIMEOUT"
    ELSE IF c.has_data THEN "HAS_DATA" ELSE "EMPTY_NO_DATA"

\* the status and the trace tag that stand for an outcome
ShownAs(outcome) ==
    CASE outcome = "HAS_DATA" -> [status |-> "DATA", tag |-> <<"O","K">>]
      [] outcome = "ERROR_OR_TIMEOUT" -> [status |-> "ERROR/TIMEOUT", tag |-> <<"E","R","R">>]
      [] OTHER -> [status |-> "EMPTY/NO_DATA", tag |-> <<"E","M","P","T","Y">>]

\* C27: the three outcomes partition the calls: no emitted call has has_data
\* and is_error both true, so the status build_all_calls_summary shows for it
\* (has_data looked at first) and the tag summarize_tool_trace puts on a
\* 4_get_data call are those of its outcome with is_error looked at first.
C27_OutcomesPartition ==
    \A k \in 1..Len(calls) :
        LET c == calls[k] IN
        /\ ~(c.has_data /\ c.is_error)
        /\ StatusOf(c.has_data, c.is_error) = ShownAs(ErrorFirst(c)).status
        /\ (c.tool = DATA_TOOL /\ c.args.type = "dict") =>
              TracePart(c) = TraceData \o GetOr(c.args.dataset, <<"?">>) \o <<")", "[">>
                             \o ShownAs(ErrorFirst(c)).tag \o <<"]">>

\* a 4_get_data call whose output has the "data" marker, the "error" marker
\* and timed out all within the prefix: is_error is set and has_data is not
C27_Witness ==
    \E k \in 1..Len(calls) :
        /\ calls[k].tool = DATA_TOOL
        /\ OccursWithin(calls[k].output, DataMarker, PrefixLen)
        /\ OccursWithin(calls[k].output, ErrorMarker, PrefixLen)
        /\ OccursWithin(calls[k].output, TimedOutMarker, PrefixLen)
        /\ calls[k].is_error
        /\ ~calls[k].has_data

\* C28: for every row built, the correct_routing column is YES exactly when
\* auto_score_routing scores that row 1, and N/A exactly when no dataset was
\* routed to.
C28_RoutingColumnAgrees ==
    pc = "row" =>
        /\ (row.correct_routing = "YES") <=> (AutoScoreRouting(row) = 1)
        /\ (row.correct_routing = "N/A") <=> (row.dataset_routed_to = <<>>)

\* C29: a ledger update that ends with an error leaves the ledger as it was:
\* when merge_into_benchmark has raised, the ledger file holds exactly the
\* rows it held before the call.
C29_FailedUpdateKeepsLedger ==
    pc \in {"merge_raised", "write_raised"} => benchmark_csv = old_benchmark

\* the greatest member of a non-empty set of line numbers
Latest(S) == CHOOSE x \in S : \A y \in S : y <= x

\* line i of the log is an output line that ends a call: a tool-identifier
\* line stands before it with no output line in between
EndsCall(ls, i) ==
    /\ MatchesOutput(ls[i])
    /\ \E j \in 1..(i - 1) :
          /\ MatchesTool(ls[j])
          /\ \A m \in (j + 1)..(i - 1) : ~MatchesOutput(ls[m])

\* the output line of the k-th call
OutputLineOf(ls, k) ==
    CHOOSE i \in 1..Len(ls) :
        /\ EndsCall(ls, i)
        /\ Cardinality({e \in 1..i : EndsCall(ls, e)}) = k

\* the tool-identifier line of the call that ends at line i, and the Args
\* lines between the two
ToolLineOf(ls, i) == Latest({j \in 1..(i - 1) : MatchesTool(ls[j])})
ArgsLinesOf(ls, i) == {m \in (ToolLineOf(ls, i) + 1)..(i - 1) : MatchesArgs(ls[m])}

\* the arguments the Args line m holds; a value that counts as false (None,
\* an empty mapping) is no argument at all
ArgsAt(ls, m) ==
    IF Truthy(EvalArgs(ls[m].text)) THEN EvalArgs(ls[m].text) ELSE EmptyDict

\* C30: the arguments of every emitted call are those of the last Args line
\* between the call's tool-identifier line and its output line, and the empty
\* mapping when there is none; an Args line before the tool-identifier line
\* (met while idle, or belonging to a pending call that was discarded) never
\* attaches to the call.
C30_ArgsOfTheCall ==
    pc \in {"scan", "done"} =>
        /\ Len(calls) = Cardinality({e \in 1..(lineno - 1) : EndsCall(server_log.lines, e)})
        /\ \A k \in 1..Len(calls) :
              LET i == OutputLineOf(server_log.lines, k)
                  between == ArgsLinesOf(server_log.lines, i)
              IN  calls[k].args = IF between = {} THEN EmptyDict
                                  ELSE ArgsAt(server_log.lines, Latest(between))

\* a call was emitted with the empty mapping although an Args line with
\* arguments stands before its tool-identifier line
C30_Witness ==
    /\ pc = "done"
    /\ \E k \in 1..Len(calls) :
          LET i == OutputLineOf(server_log.lines, k) IN
          /\ ArgsLinesOf(server_log.lines, i) = {}
          /\ \E m \in 1..(ToolLineOf(server_log.lines, i) - 1) :
                /\ MatchesArgs(server_log.lines[m])
                /\ Truthy(EvalArgs(server_log.lines[m].text))
          /\ calls[k].args = EmptyDict

=============================================================================
